---- MODULE Spec2Model ----
(***************************************************************************)
(* Vulnhalla triage engine: the conversation controller                    *)
(* (LLMAnalyzer.run_llm_security_analysis), the code-index resolver it     *)
(* dispatches to, and the per-finding driver                               *)
(* (IssueAnalyzer.process_issue_type).                                     *)
(*                                                                         *)
(* Text is a sequence of tokens (strings).  Names, paths and CSV fields    *)
(* are sequences of one-character tokens, so that Python's `in`, `==`,     *)
(* replace, strip and split act on them as they act on str.                *)
(***************************************************************************)
EXTENDS Integers, Sequences, FiniteSets, TLC

(***************************************************************************)
(* Bounds of the model.                                                    *)
(***************************************************************************)
\* iterations of the controller loop explored per conversation
MaxIter == 8
\* tool invocations carried by one assistant turn
MaxCalls == 2
\* tokens of an assistant text
MaxText == 2
\* reminder iterations explored per conversation
MaxReminders == 1

(***************************************************************************)
(* Program constants.                                                      *)
(***************************************************************************)
\* `if amount_of_tools >= 6`
StopThreshold == 6

\* the status codes scanned for in a tool-free assistant turn
StatusCodes == {"1337", "1007", "7331", "3713"}

(***************************************************************************)
(* Python str helpers on character sequences.                              *)
(***************************************************************************)
Q == "\""
NL == "\n"

\* sub in s
Contains(s, sub) ==
    \E i \in 0..(Len(s) - Len(sub)) : SubSeq(s, i + 1, i + Len(sub)) = sub

\* s.replace("\"", "")
RECURSIVE RemoveQuotes(_)
RemoveQuotes(s) ==
    IF s = <<>> THEN <<>>
    ELSE IF Head(s) = Q THEN RemoveQuotes(Tail(s))
    ELSE <<Head(s)>> \o RemoveQuotes(Tail(s))

Whitespace == {" ", NL, "\t", "\r"}

\* s.lstrip()
RECURSIVE LStrip(_)
LStrip(s) ==
    IF s /= <<>> /\ Head(s) \in Whitespace THEN LStrip(Tail(s)) ELSE s

\* s.rstrip()
RECURSIVE RStrip(_)
RStrip(s) ==
    IF s /= <<>> /\ s[Len(s)] \in Whitespace
    THEN RStrip(SubSeq(s, 1, Len(s) - 1))
    ELSE s

\* s.strip()
Strip(s) == LStrip(RStrip(s))

\* s.split("::")[-1]
AfterLast(s, seps) ==
    IF seps = {} THEN s
    ELSE SubSeq(s, (CHOOSE i \in seps : \A j \in seps : j <= i) + 2, Len(s))

LastComponent(s) ==
    AfterLast(s, {i \in 1..(Len(s) - 1) : s[i] = ":" /\ s[i + 1] = ":"})

\* s[1:]
Drop1(s) == IF s = <<>> THEN <<>> ELSE Tail(s)

Digits == {"0", "1", "2", "3", "4", "5", "6", "7", "8", "9"}

DigitValue(c) ==
    CASE c = "0" -> 0 [] c = "1" -> 1 [] c = "2" -> 2 [] c = "3" -> 3
      [] c = "4" -> 4 [] c = "5" -> 5 [] c = "6" -> 6 [] c = "7" -> 7
      [] c = "8" -> 8 [] c = "9" -> 9

RECURSIVE DigitsValue(_)
DigitsValue(s) ==
    IF s = <<>> THEN 0
    ELSE 10 * DigitsValue(SubSeq(s, 1, Len(s) - 1)) + DigitValue(s[Len(s)])

\* the value int(s) raises ValueError for
ValueError == -1

\* int(s): surrounding whitespace is ignored, anything but digits raises
IntOfStripped(t) ==
    IF t /= <<>> /\ \A i \in 1..Len(t) : t[i] \in Digits
    THEN DigitsValue(t)
    ELSE ValueError

ParseInt(s) == IntOfStripped(Strip(s))

(***************************************************************************)
(* The export (FunctionTree.csv, Macros.csv, GlobalVars.csv, Classes.csv)  *)
(* and the source archive (src.zip) of one CodeQL database.  A row is the  *)
(* dict the code builds with dict(zip(keys, re.split(...))): raw fields,   *)
(* quotes kept; readline() leaves the newline on the last field.           *)
(***************************************************************************)
FnRow(name, file, start, id, end, caller) ==
    [function_name |-> <<Q>> \o name \o <<Q>>,
     file          |-> <<Q>> \o file \o <<Q>>,
     start_line    |-> start,
     function_id   |-> <<Q>> \o id \o <<Q>>,
     end_line      |-> end,
     caller_id     |-> <<Q>> \o caller \o <<Q, NL>>]

\* sourceLocationPrefix is "/r": self.code_path is "r"
CodePath == <<"r">>

FileA == <<"/", "r", "/", "a">>
FileB == <<"/", "r", "/", "b">>
FileX == <<"/", "r", "/", "x">>

\* The call chain above f is g, h, p, q, r, s; f calls ab, b and x; k is
\* called from a function the export does not hold.
FunctionTree ==
    << FnRow(<<"f">>,      FileA, <<"5">>,      <<"1">>,      <<"7">>,      <<"2">>),
       FnRow(<<"g">>,      FileA, <<"2", "0">>, <<"2">>,      <<"2", "1">>, <<"3">>),
       FnRow(<<"h">>,      FileB, <<"1">>,      <<"3">>,      <<"2">>,      <<"1", "0">>),
       FnRow(<<"a", "b">>, FileB, <<"1", "2">>, <<"4">>,      <<"1", "3">>, <<"1">>),
       FnRow(<<"b">>,      FileB, <<"1", "6">>, <<"5">>,      <<"1", "7">>, <<"1">>),
       FnRow(<<"k">>,      FileB, <<"2", "0">>, <<"6">>,      <<"2", "2">>, <<"9">>),
       FnRow(<<"x">>,      FileX, <<"1">>,      <<"8">>,      <<"2">>,      <<"1">>),
       FnRow(<<"p">>,      FileA, <<"3", "0">>, <<"1", "0">>, <<"3", "1">>, <<"1", "1">>),
       FnRow(<<"q">>,      FileA, <<"3", "2">>, <<"1", "1">>, <<"3", "3">>, <<"1", "2">>),
       FnRow(<<"r">>,      FileA, <<"3", "4">>, <<"1", "2">>, <<"3", "5">>, <<"1", "3">>),
       FnRow(<<"s">>,      FileA, <<"3", "6">>, <<"1", "3">>, <<"3", "7">>, <<>>) >>

Macros ==
    << [macro_name |-> <<Q, "M", "X", Q>>, body |-> <<Q, "1", Q, NL>>] >>

GlobalVars ==
    << [global_var_name |-> <<Q, "v", Q>>, file |-> <<Q>> \o FileA \o <<Q>>,
        start_line |-> <<"2">>, end_line |-> <<"2", NL>>] >>

Classes ==
    << [type |-> <<Q, "s", Q>>, class_name |-> <<Q, "N", ":", ":", "C", Q>>,
        file |-> <<Q>> \o FileA \o <<Q>>, start_line |-> <<"4", "0">>,
        end_line |-> <<"4", "1">>, simple_name |-> <<Q, "C", Q, NL>>] >>

\* src.zip: the files it holds (path without the leading "/") and their
\* number of lines; FileX is in the export but not in the archive.
ArchiveFiles == {Drop1(FileA), Drop1(FileB)}
ArchiveLines(path) == IF path = Drop1(FileA) THEN 45 ELSE 25

\* the raw text of a row, as readline() returned it
FnRowText(r) ==
    r.function_name \o <<",">> \o r.file \o <<",">> \o r.start_line \o <<",">>
        \o r.function_id \o <<",">> \o r.end_line \o <<",">> \o r.caller_id

MacroRowText(r) == r.macro_name \o <<",">> \o r.body

GlobalRowText(r) ==
    r.global_var_name \o <<",">> \o r.file \o <<",">> \o r.start_line
        \o <<",">> \o r.end_line

ClassRowText(r) ==
    r.type \o <<",">> \o r.class_name \o <<",">> \o r.file \o <<",">>
        \o r.start_line \o <<",">> \o r.end_line \o <<",">> \o r.simple_name

(***************************************************************************)
(* Code-index resolver.  A lookup result is [tag, row]: tag "found" with   *)
(* the row, "notfound" (the code returns None or a message), or the name   *)
(* of the exception the lookup raised.                                     *)
(***************************************************************************)
NoRow == [function_name |-> <<>>, file |-> <<>>, start_line |-> <<>>,
          function_id |-> <<>>, end_line |-> <<>>, caller_id |-> <<>>]

Found(r) == [tag |-> "found", row |-> r]
NotFound == [tag |-> "notfound", row |-> NoRow]
Raised(e) == [tag |-> e, row |-> NoRow]

\* LLMAnalyzer.get_function_by_line: the first row whose text contains
\* `file` and whose [start_line, end_line] contains `line`.
\* the range test on one row whose text contains `file`
RowCovers(start, end, line) ==
    IF start = ValueError \/ end = ValueError THEN "ValueError"
    ELSE IF start <= line /\ line <= end THEN "yes" ELSE "no"

RowCoversLine(r, file, line) ==
    IF Contains(FnRowText(r), file) /\ r.start_line /= <<>> /\ r.end_line /= <<>>
    THEN RowCovers(ParseInt(r.start_line), ParseInt(r.end_line), line)
    ELSE "no"

ScanStep(r, covers, rest) ==
    IF covers = "yes" THEN Found(r)
    ELSE IF covers = "no" THEN rest
    ELSE Raised(covers)

RECURSIVE ScanByLine(_, _, _, _)
ScanByLine(tree, i, file, line) ==
    IF i > Len(tree) THEN NotFound
    ELSE ScanStep(tree[i], RowCoversLine(tree[i], file, line),
                  ScanByLine(tree, i + 1, file, line))

get_function_by_line(tree, file, line) == ScanByLine(tree, 1, file, line)

\* the match test of get_function_by_name on one row, for one known function
NameRowMatches(r, known, name_only, less_strict) ==
    /\ Contains(FnRowText(r), known.function_id)
    /\ \/ RemoveQuotes(r.function_name) = name_only
       \/ (less_strict /\ Contains(RemoveQuotes(r.function_name), name_only))

\* the first of a set of (known function, row) index pairs, in scan order
FirstPair(hits) ==
    CHOOSE p \in hits : \A q \in hits :
        p[1] < q[1] \/ (p[1] = q[1] /\ p[2] <= q[2])

NameResult(tree, all_function, hits) ==
    IF hits = {} THEN [tag |-> "notfound", row |-> NoRow, parent |-> NoRow]
    ELSE [tag |-> "found", row |-> tree[FirstPair(hits)[2]],
          parent |-> all_function[FirstPair(hits)[1]]]

\* one pass of get_function_by_name: known functions in list order, rows in
\* file order; the result carries the known function that led to the row.
ScanByName(tree, name_only, all_function, less_strict) ==
    NameResult(tree, all_function,
        {p \in (1..Len(all_function)) \X (1..Len(tree)) :
            NameRowMatches(tree[p[2]], all_function[p[1]], name_only, less_strict)})

ExactOrElse(strict, loose) == IF strict.tag = "found" THEN strict ELSE loose

\* LLMAnalyzer.get_function_by_name: the exact pass, then the substring pass
get_function_by_name(tree, function_name, all_function) ==
    ExactOrElse(
        ScanByName(tree, LastComponent(function_name), all_function, FALSE),
        ScanByName(tree, LastComponent(function_name), all_function, TRUE))

Min(S) == CHOOSE i \in S : \A j \in S : i <= j

\* the file:line fallback of get_caller_function
CallerByPosition(tree, caller_id, c) ==
    IF ParseInt(SubSeq(caller_id, c + 1, Len(caller_id))) = ValueError
    THEN Raised("ValueError")
    ELSE get_function_by_line(tree, Drop1(SubSeq(caller_id, 1, c - 1)),
                              ParseInt(SubSeq(caller_id, c + 1, Len(caller_id))))

CallerResult(tree, caller_id, hits, colons) ==
    IF hits /= {} THEN Found(tree[Min(hits)])
    ELSE IF Cardinality(colons) = 1
         THEN CallerByPosition(tree, caller_id, Min(colons))
         ELSE NotFound

CallerById(tree, caller_id) ==
    CallerResult(tree, caller_id,
        {i \in 1..Len(tree) :
            /\ Contains(FnRowText(tree[i]), caller_id)
            /\ Strip(RemoveQuotes(tree[i].function_id)) = caller_id},
        {i \in 1..Len(caller_id) : caller_id[i] = ":"})

\* LLMAnalyzer.get_caller_function
get_caller_function(tree, current) ==
    CallerById(tree, Strip(RemoveQuotes(current.caller_id)))

\* get_macro / get_global_var / get_class share one shape: rows whose text
\* contains the name are split; exact pass first, substring pass second.
FirstIndex(hits) ==
    IF hits = {} THEN [tag |-> "notfound", idx |-> 0]
    ELSE [tag |-> "found", idx |-> Min(hits)]

MacroMatches(r, macro_name, less_strict) ==
    /\ Contains(MacroRowText(r), macro_name)
    /\ \/ RemoveQuotes(r.macro_name) = macro_name
       \/ (less_strict /\ Contains(RemoveQuotes(r.macro_name), macro_name))

ScanMacros(rows, macro_name, less_strict) ==
    FirstIndex({i \in 1..Len(rows) : MacroMatches(rows[i], macro_name, less_strict)})

\* LLMAnalyzer.get_macro
get_macro(rows, macro_name) ==
    ExactOrElse(ScanMacros(rows, macro_name, FALSE),
                ScanMacros(rows, macro_name, TRUE))

GlobalMatches(r, var_name_only, less_strict) ==
    /\ Contains(GlobalRowText(r), var_name_only)
    /\ \/ RemoveQuotes(r.global_var_name) = var_name_only
       \/ (less_strict /\ Contains(RemoveQuotes(r.global_var_name), var_name_only))

ScanGlobals(rows, var_name_only, less_strict) ==
    FirstIndex({i \in 1..Len(rows) : GlobalMatches(rows[i], var_name_only, less_strict)})

\* LLMAnalyzer.get_global_var
get_global_var(rows, global_var_name) ==
    ExactOrElse(ScanGlobals(rows, LastComponent(global_var_name), FALSE),
                ScanGlobals(rows, LastComponent(global_var_name), TRUE))

ClassMatches(r, class_name_only, less_strict) ==
    /\ Contains(ClassRowText(r), class_name_only)
    /\ \/ RemoveQuotes(r.class_name) = class_name_only
       \/ RemoveQuotes(r.simple_name) = class_name_only
       \/ (less_strict /\ Contains(RemoveQuotes(r.class_name), class_name_only))
       \/ (less_strict /\ Contains(RemoveQuotes(r.simple_name), class_name_only))

ScanClasses(rows, class_name_only, less_strict) ==
    FirstIndex({i \in 1..Len(rows) : ClassMatches(rows[i], class_name_only, less_strict)})

\* LLMAnalyzer.get_class
get_class(rows, class_name) ==
    ExactOrElse(ScanClasses(rows, LastComponent(class_name), FALSE),
                ScanClasses(rows, LastComponent(class_name), TRUE))

(***************************************************************************)
(* Snippet extractor (LLMAnalyzer.extract_function_from_file).  A source   *)
(* line is the token pair <<"src", n>> for line n of its file (1-based);   *)
(* the numeric prefix the extractor writes precedes it.                    *)
(***************************************************************************)
\* lines[start_line - 1:end_line] of a file of n lines, numbered from 1
SliceLines(n, start_line, end_line) ==
    IF start_line < 1 THEN <<>>
    ELSE [i \in 1..((IF end_line < n THEN end_line ELSE n) - start_line + 1)
             |-> start_line + i - 1]

\* "\n".join(f"{start_line - 1 + i}: {text}" for i, text in enumerate(lines))
RECURSIVE NumberedLines(_, _, _)
NumberedLines(lines, start_line, i) ==
    IF i >= Len(lines) THEN <<>>
    ELSE (IF i = 0 THEN <<>> ELSE <<NL>>)
            \o <<ToString(start_line - 1 + i), ": ", "src", ToString(lines[i + 1])>>
            \o NumberedLines(lines, start_line, i + 1)

SnippetOf(file_path, start_line, end_line) ==
    IF file_path \notin ArchiveFiles
    THEN [tag |-> "KeyError", text |-> <<>>]
    ELSE IF start_line = ValueError \/ end_line = ValueError
         THEN [tag |-> "ValueError", text |-> <<>>]
         ELSE [tag |-> "ok",
               text |-> <<"file: ">> \o file_path \o <<NL>>
                   \o NumberedLines(
                          SliceLines(ArchiveLines(file_path), start_line, end_line),
                          start_line, 0)]

\* [tag, text]: tag "ok" with the snippet, or the exception raised
extract_function_from_file(row) ==
    SnippetOf(Drop1(RemoveQuotes(row.file)), ParseInt(row.start_line),
              ParseInt(row.end_line))

(***************************************************************************)
(* Conversation state of one run_llm_security_analysis call.               *)
(***************************************************************************)
VARIABLES
    pc,               \* "await": about to call the model; "done": returned;
                      \* "error": an exception left the function
    err,              \* the exception that left the function, or "none"
    messages,         \* the transcript
    amount_of_tools,  \* the tool-call counter
    iteration,        \* the loop counter
    final_content,    \* content of the last model turn, "" for None
    got_answer,       \* the loop's exit flag
    all_functions,    \* the known-function list
    current_function, \* the function get_caller_function starts from
    model_calls,      \* litellm.completion calls issued (primary and side)
    side_queries      \* map_func_args_by_llm calls that returned

conv_vars == <<pc, err, messages, amount_of_tools, iteration, final_content,
               got_answer, all_functions, current_function, model_calls,
               side_queries>>

\* the locals of IssueAnalyzer.process_issue_type
VARIABLES
    issues,        \* issues_of_type
    issue_id,      \* the number of the finding at hand
    real_issues,   \* ids judged "true"
    false_issues,  \* ids judged "false"
    more_data,     \* ids judged "more"
    raw_files,     \* ids with a <id>_raw.json
    final_files,   \* ids with a <id>_final.json
    skipped,       \* findings left with the warning "Can't find the function"
    status         \* the status logged last

batch_vars == <<issues, issue_id, real_issues, false_issues, more_data,
                raw_files, final_files, skipped, status>>

\* one resolver or extractor call made on its own: the export it reads, its
\* arguments and what it returned
VARIABLES
    export,   \* [kind, rows]: the CSV file read and its rows in file order
    request,  \* the call and its arguments
    answer    \* what the call returned or raised

lookup_vars == <<export, request, answer>>

Request(op, name, known, file, line, row) ==
    [op |-> op, name |-> name, known |-> known, file |-> file, line |-> line,
     row |-> row]

\* no call is made on its own: the conversation and the batch read the
\* database defined above
NoLookup ==
    /\ export = [kind |-> "none", rows |-> <<>>]
    /\ request = Request("none", <<>>, <<>>, <<>>, 0, <<>>)
    /\ answer = [tag |-> "none"]

(***************************************************************************)
(* The LLM configuration and the client.                                   *)
(***************************************************************************)
VARIABLES
    config,         \* IssueAnalyzer.config: the dictionary given, or None
    environment,    \* what .env and the PATH hold
    analyzer        \* LLMAnalyzer.config and LLMAnalyzer.model

run_vars == <<config, environment, analyzer>>

\* a configuration dictionary: the keys it has, the values read by the code
\* (a model name is a sequence of tokens, empty for None)
ConfigDict(keys, provider, model, api_key) ==
    [is_dict |-> TRUE, keys |-> keys, provider |-> provider, model |-> model,
     api_key |-> api_key]

NoConfig ==
    [is_dict |-> FALSE, keys |-> {}, provider |-> "", model |-> <<>>, api_key |-> ""]

ALLOWED_LLM_PROVIDERS ==
    {"openai", "azure", "anthropic", "mistral", "codestral", "groq", "openrouter",
     "huggingface", "cohere", "bedrock", "vertex_ai", "gemini", "ollama", "deepseek"}

\* empty, the placeholder of .env.example, or "sk-..."
is_placeholder_api_key(api_key) == api_key \in {"", "your_api_key", "sk-..."}

NormalisedProvider(c) == IF c.provider = "google" THEN "gemini" ELSE c.provider

HasValidKey(c) == "api_key" \in c.keys /\ ~is_placeholder_api_key(c.api_key)

\* validate_llm_config_dict: TRUE, or FALSE where the code raises ValueError
\* (a key the dictionary has besides api_key has a non-empty value)
validate_llm_config_dict(c) ==
    /\ {"provider", "model"} \subseteq c.keys
    /\ NormalisedProvider(c) \in ALLOWED_LLM_PROVIDERS
    /\ IF NormalisedProvider(c) = "azure"
       THEN "endpoint" \in c.keys /\ HasValidKey(c)
       ELSE IF NormalisedProvider(c) = "bedrock"
       THEN HasValidKey(c) /\ {"aws_secret_access_key", "endpoint"} \subseteq c.keys
       ELSE IF NormalisedProvider(c) = "ollama"
       THEN "endpoint" \in c.keys
       ELSE HasValidKey(c)

Prefixed(provider, model) ==
    IF Len(model) >= 2 /\ model[1] = provider /\ model[2] = "/" THEN model
    ELSE <<provider, "/">> \o model

get_model_name(provider, model) ==
    IF model = <<>> THEN <<"gpt-4o">>
    ELSE IF provider = "openai" THEN model
    ELSE IF provider = "azure" THEN Prefixed("azure", model)
    ELSE IF provider /= "" THEN Prefixed(provider, model)
    ELSE model

\* validate_all_config: the CodeQL path and the configuration of .env
validate_all_config(env) ==
    env.codeql_ok /\ env.loads /\ validate_llm_config_dict(env.llm)

\* init_llm_client(config): the dictionary given when it is not empty, else
\* the one loaded from .env; the analyzer's fields as the call leaves them
init_llm_client(given, env) ==
    IF given.is_dict /\ given.keys /= {}
    THEN IF validate_llm_config_dict(given)
         THEN [tag |-> "ok",
               config |-> [given EXCEPT !.provider = NormalisedProvider(given)],
               model |-> get_model_name(NormalisedProvider(given), given.model)]
         ELSE [tag |-> "LLMConfigError", config |-> NoConfig, model |-> <<>>]
    ELSE IF env.loads /\ validate_llm_config_dict(env.llm)
         THEN [tag |-> "ok",
               config |-> [env.llm EXCEPT !.provider = NormalisedProvider(env.llm)],
               model |-> IF "model" \in env.llm.keys THEN env.llm.model
                         ELSE <<"gpt-4o">>]
         ELSE [tag |-> "LLMConfigError", config |-> NoConfig, model |-> <<>>]

\* .env names OpenAI, a model and a key; codeql is on the PATH
OpenAIConfig ==
    ConfigDict({"provider", "model", "api_key"}, "openai", <<"gpt-4o">>, "sk-live")

DefaultEnvironment == [llm |-> OpenAIConfig, loads |-> TRUE, codeql_ok |-> TRUE]

\* the client as main() and run() leave it before the first conversation
Configured ==
    /\ config = NoConfig
    /\ environment = DefaultEnvironment
    /\ analyzer = [config |-> init_llm_client(NoConfig, DefaultEnvironment).config,
                   model  |-> init_llm_client(NoConfig, DefaultEnvironment).model]

\* Python None as a message content
None == <<"None">>

\* a message dict; `keys` are the keys the dict has
Message(role, content) ==
    [role |-> role, content |-> content, keys |-> {"role", "content"},
     tool_calls |-> <<>>, tool_call_id |-> 0, name |-> ""]

AssistantTurn(content, tool_calls) ==
    [role |-> "assistant", content |-> content,
     keys |-> {"role", "content", "tool_calls"},
     tool_calls |-> tool_calls, tool_call_id |-> 0, name |-> ""]

ToolReply(tool_call_id, name, content) ==
    [role |-> "tool", content |-> content,
     keys |-> {"role", "tool_call_id", "name", "content"},
     tool_calls |-> <<>>, tool_call_id |-> tool_call_id, name |-> name]

\* self.MESSAGES: persona, answer guidelines, status codes
MESSAGES ==
    << Message("system", <<"You are an expert security researcher.">>),
       Message("system", <<"### Answer Guidelines">>),
       Message("system", <<"### Status Codes", "1337", "1007", "7331", "3713">>) >>

UserPrompt == Message("user", <<"prompt">>)

Reminder == Message("system", <<"Please follow all the instructions!">>)

StopWarning == Message("system", <<"You called too many tools!">>)

\* code in final_content
HasCode(text, code) == \E i \in 1..Len(text) : text[i] = code

\* any(code in final_content for code in ["1337", "1007", "7331", "3713"])
HasStatusCode(text) == \E code \in StatusCodes : HasCode(text, code)

\* content_obj.content or ""
OrEmpty(content) == IF content = None THEN <<>> ELSE content

(***************************************************************************)
(* Tool dispatch: the body of `for tc in tool_calls`.  The loop state is   *)
(* [messages, arg_messages, all_functions, current_function, model_calls,  *)
(* side_queries, err]; err names the exception that ended the loop.        *)
(***************************************************************************)
NotFoundFunction(name) == <<"Function '">> \o name \o <<"' not found.">>
NotFoundCaller == <<"Caller function was not found.">>
NotFoundMacro(name) == <<"Macro '">> \o name \o <<"' not found.">>
NotFoundGlobal(name) == <<"Global var '">> \o name \o <<"' not found.">>
NotFoundClass(name) == <<"Class '">> \o name \o <<"' not found.">>
NoMatchingTool(name) == <<"No matching tool '", name, "' or invalid args. Try again.">>

\* arg_messages.append({"role": args_content.role, "content": args_content.content})
ArgMessage == Message("assistant", <<"caller_var -> callee_var">>)

Fail(st, e) == [st EXCEPT !.err = e]

\* deviation: the reply is appended without the invocation's identifier
ReplyWithoutId(st, tc, response_msg) ==
    [st EXCEPT !.messages = Append(@, ToolReply(0, tc.name, response_msg))]

\* the tool reply appended at the end of the loop body
Reply(st, tc, response_msg) ==
    [st EXCEPT !.messages = Append(@, ToolReply(tc.id, tc.name, response_msg))]

\* deviation: a failed side-query is passed over and the loop goes on
SideQueryPassedOver(st, side_ok) ==
    IF side_ok
    THEN [st EXCEPT !.model_calls = @ + 1, !.side_queries = @ + 1,
                    !.arg_messages = Append(@, ArgMessage)]
    ELSE [st EXCEPT !.model_calls = @ + 1]

\* deviation: the mapping turn joins the transcript as soon as it is made
SideQueryAddedAtOnce(st, side_ok) ==
    IF side_ok
    THEN [st EXCEPT !.model_calls = @ + 1, !.side_queries = @ + 1,
                    !.messages = Append(@, ArgMessage)]
    ELSE [st EXCEPT !.model_calls = @ + 1, !.err = "LLMApiError"]

\* map_func_args_by_llm, then arg_messages.append
SideQuery(st, side_ok) ==
    IF side_ok
    THEN [st EXCEPT !.model_calls = @ + 1, !.side_queries = @ + 1,
                    !.arg_messages = Append(@, ArgMessage)]
    ELSE [st EXCEPT !.model_calls = @ + 1, !.err = "LLMApiError"]

HasArg(tc, key) == tc.arguments.key = key

ReplyUnlessRaised(st, tc, response_msg) ==
    IF st.err /= "none" THEN st ELSE Reply(st, tc, response_msg)

\* child and caller snippets, the side-query, the reply
MapAndReply(st, tc, side_ok, child_code, caller_code) ==
    IF child_code.tag /= "ok" THEN Fail(st, child_code.tag)
    ELSE IF caller_code.tag /= "ok" THEN Fail(st, caller_code.tag)
    ELSE ReplyUnlessRaised(SideQuery(st, side_ok), tc, child_code.text)

\* deviation: the side-query is issued for a name that was not found too
FunctionCodeResultAlwaysMapped(st, tc, side_ok, res) ==
    IF res.tag /= "found"
    THEN ReplyUnlessRaised(SideQuery(st, side_ok), tc,
                           NotFoundFunction(tc.arguments.value))
    ELSE MapAndReply([st EXCEPT !.all_functions = Append(@, res.row)], tc, side_ok,
                     extract_function_from_file(res.row),
                     extract_function_from_file(res.parent))

FunctionCodeResult(st, tc, side_ok, res) ==
    IF res.tag /= "found"
    THEN Reply(st, tc, NotFoundFunction(tc.arguments.value))
    ELSE MapAndReply([st EXCEPT !.all_functions = Append(@, res.row)], tc, side_ok,
                     extract_function_from_file(res.row),
                     extract_function_from_file(res.parent))

\* the branch tool_function_name == 'get_function_code'
GetFunctionCode(st, tc, side_ok) ==
    FunctionCodeResult(st, tc, side_ok,
        get_function_by_name(FunctionTree, tc.arguments.value, st.all_functions))

CallerReply(st, old_function, caller_code) ==
    <<"Here is the caller function for '">> \o old_function.function_name
        \o <<"':", NL>> \o caller_code.text

\* deviation: the caller is shown but the conversation stays where it was
MapWithoutClimbing(st, tc, side_ok, caller, caller_code, callee_code) ==
    IF caller_code.tag /= "ok" THEN Fail(st, caller_code.tag)
    ELSE IF callee_code.tag /= "ok" THEN Fail(st, callee_code.tag)
    ELSE ReplyUnlessRaised(SideQuery(st, side_ok), tc,
                           CallerReply(st, st.current_function, caller_code))

\* caller and callee snippets, the side-query, the move to the caller
MapAndClimb(st, tc, side_ok, caller, caller_code, callee_code) ==
    IF caller_code.tag /= "ok" THEN Fail(st, caller_code.tag)
    ELSE IF callee_code.tag /= "ok" THEN Fail(st, callee_code.tag)
    ELSE ReplyUnlessRaised(
             [SideQuery(st, side_ok) EXCEPT !.current_function = caller], tc,
             CallerReply(st, st.current_function, caller_code))

CallerFunctionResult(st, tc, side_ok, res) ==
    IF res.tag = "notfound" THEN Reply(st, tc, NotFoundCaller)
    ELSE IF res.tag /= "found" THEN Fail(st, res.tag)
    ELSE MapAndClimb([st EXCEPT !.all_functions = Append(@, res.row)], tc, side_ok,
                     res.row, extract_function_from_file(res.row),
                     extract_function_from_file(st.current_function))

\* the branch tool_function_name == 'get_caller_function'
GetCallerFunction(st, tc, side_ok) ==
    CallerFunctionResult(st, tc, side_ok,
        get_caller_function(FunctionTree, st.current_function))

MacroResult(st, tc, res) ==
    IF res.tag = "found" THEN Reply(st, tc, Macros[res.idx].body)
    ELSE Reply(st, tc, NotFoundMacro(tc.arguments.value))

\* the branch tool_function_name == 'get_macro'
GetMacro(st, tc) == MacroResult(st, tc, get_macro(Macros, tc.arguments.value))

SnippetReply(st, tc, code) ==
    IF code.tag /= "ok" THEN Fail(st, code.tag) ELSE Reply(st, tc, code.text)

GlobalVarResult(st, tc, res) ==
    IF res.tag /= "found" THEN Reply(st, tc, NotFoundGlobal(tc.arguments.value))
    ELSE SnippetReply(st, tc, extract_function_from_file(GlobalVars[res.idx]))

\* the branch tool_function_name == 'get_global_var'
GetGlobalVar(st, tc) ==
    GlobalVarResult(st, tc, get_global_var(GlobalVars, tc.arguments.value))

ClassResult(st, tc, res) ==
    IF res.tag /= "found" THEN Reply(st, tc, NotFoundClass(tc.arguments.value))
    ELSE SnippetReply(st, tc, extract_function_from_file(Classes[res.idx]))

\* the branch tool_function_name == 'get_class'
GetClass(st, tc) == ClassResult(st, tc, get_class(Classes, tc.arguments.value))

\* one pass of the loop body for tool call tc
DispatchToolCall(st, tc, side_ok) ==
    IF ~tc.arguments.json_ok THEN Fail(st, "JSONDecodeError")
    ELSE IF tc.name = "get_function_code" /\ HasArg(tc, "function_name")
         THEN GetFunctionCode(st, tc, side_ok)
    ELSE IF tc.name = "get_caller_function"
         THEN GetCallerFunction(st, tc, side_ok)
    ELSE IF tc.name = "get_macro" /\ HasArg(tc, "macro_name")
         THEN GetMacro(st, tc)
    ELSE IF tc.name = "get_global_var" /\ HasArg(tc, "global_var_name")
         THEN GetGlobalVar(st, tc)
    ELSE IF tc.name = "get_class" /\ HasArg(tc, "object_name")
         THEN GetClass(st, tc)
    ELSE Reply(st, tc, NoMatchingTool(tc.name))

\* for tc in tool_calls: ...
RECURSIVE DispatchAll(_, _, _, _)
DispatchAll(st, tool_calls, i, side_ok) ==
    IF i > Len(tool_calls) \/ st.err /= "none" THEN st
    ELSE DispatchAll(DispatchToolCall(st, tool_calls[i], side_ok),
                     tool_calls, i + 1, side_ok)

(***************************************************************************)
(* One iteration of `while not got_answer`, from the model's reply on.     *)
(***************************************************************************)
\* deviation: any non-empty text ends the conversation
TextBranchNonEmpty(st) ==
    IF st.final_content /= <<>>
    THEN [st EXCEPT !.got_answer = TRUE]
    ELSE [st EXCEPT !.messages = Append(@, Reminder)]

\* deviation: a verdict is refused once the stop warning has been given
TextBranchUnderBudget(st) ==
    IF st.final_content /= <<>> /\ HasStatusCode(st.final_content)
       /\ st.amount_of_tools < StopThreshold
    THEN [st EXCEPT !.got_answer = TRUE]
    ELSE [st EXCEPT !.messages = Append(@, Reminder)]

\* the branch `if not tool_calls`
TextBranch(st) ==
    IF st.final_content /= <<>> /\ HasStatusCode(st.final_content)
    THEN [st EXCEPT !.got_answer = TRUE]
    ELSE [st EXCEPT !.messages = Append(@, Reminder)]

\* deviation: the warning starts one iteration late
AppendStopWarningAbove(st) ==
    IF st.amount_of_tools > StopThreshold
    THEN [st EXCEPT !.messages = Append(@, StopWarning)]
    ELSE st

\* `if amount_of_tools >= 6: messages.append(...)`
AppendStopWarning(st) ==
    IF st.amount_of_tools >= StopThreshold
    THEN [st EXCEPT !.messages = Append(@, StopWarning)]
    ELSE st

\* deviation: the counter counts invocations
CountToolInvocations(st, tool_calls) ==
    [st EXCEPT !.amount_of_tools = @ + Len(tool_calls)]

\* `amount_of_tools += 1`
CountToolIteration(st, tool_calls) ==
    [st EXCEPT !.amount_of_tools = @ + 1]

\* deviation: the argument-mapping turns are not added to the transcript
EndToolBranchWithoutMappings(st) ==
    IF st.err /= "none" THEN st ELSE AppendStopWarning(st)

\* the branch `else` (the turn carries tool calls)
\* `messages += arg_messages`, then the stop warning
EndToolBranch(st) ==
    IF st.err /= "none" THEN st
    ELSE AppendStopWarning([st EXCEPT !.messages = @ \o st.arg_messages])

ToolBranch(st, tool_calls, side_ok) ==
    EndToolBranch(DispatchAll(CountToolIteration(st, tool_calls), tool_calls, 1, side_ok))

\* tc.id: the provider numbers the calls of a conversation
WithIds(calls, it) ==
    [i \in 1..Len(calls) |->
        [id |-> 10 * it + i, name |-> calls[i].name, arguments |-> calls[i].arguments]]

\* the loop's locals once the reply is appended to the transcript
Received(reply) ==
    [messages         |-> Append(messages,
                              AssistantTurn(reply.content,
                                            WithIds(reply.calls, iteration + 1))),
     arg_messages     |-> <<>>,
     all_functions    |-> all_functions,
     current_function |-> current_function,
     amount_of_tools  |-> amount_of_tools,
     iteration        |-> iteration + 1,
     final_content    |-> OrEmpty(reply.content),
     got_answer       |-> got_answer,
     model_calls      |-> model_calls + 1,
     side_queries     |-> side_queries,
     err              |-> "none"]

\* the loop body after litellm.completion returned `reply`
AfterReply(reply, side_ok) ==
    IF reply.calls = <<>> THEN TextBranch(Received(reply))
    ELSE ToolBranch(Received(reply), WithIds(reply.calls, iteration + 1), side_ok)

(***************************************************************************)
(* The replies the model is let to give.                                   *)
(***************************************************************************)
Arguments(key, value) == [json_ok |-> TRUE, key |-> key, value |-> value]
NoArguments == [json_ok |-> TRUE, key |-> "", value |-> <<>>]
BadJson == [json_ok |-> FALSE, key |-> "", value |-> <<>>]

Call(name, arguments) == [name |-> name, arguments |-> arguments]

CallerCall == Call("get_caller_function", NoArguments)
FunctionCall(n) == Call("get_function_code", Arguments("function_name", n))

\* calls a multi-call turn is built from
FewCalls ==
    { CallerCall,
      FunctionCall(<<"b">>),
      Call("bogus", NoArguments) }

\* calls a single-call turn is built from
ManyCalls ==
    FewCalls \cup
    { FunctionCall(<<"z">>),
      FunctionCall(<<"N", ":", ":", "a">>),
      FunctionCall(<<"x">>),
      Call("get_function_code", NoArguments),
      Call("get_macro", Arguments("macro_name", <<"M">>)),
      Call("get_global_var", Arguments("global_var_name", <<"v">>)),
      Call("get_class", Arguments("object_name", <<"C">>)),
      Call("get_macro", BadJson) }

RECURSIVE SeqsUpTo(_, _)
SeqsUpTo(S, n) ==
    IF n = 0 THEN {<<>>}
    ELSE SeqsUpTo(S, n - 1) \cup {Append(q, x) : q \in SeqsUpTo(S, n - 1), x \in S}

CallSeqs ==
    {<<c>> : c \in ManyCalls}
        \cup {q \in SeqsUpTo(FewCalls, MaxCalls) : Len(q) >= 2}

Tokens == StatusCodes \cup {"txt"}

Texts == SeqsUpTo(Tokens, MaxText) \cup {None}

\* the model's reply: content and tool calls (ids are given on receipt)
Replies ==
    [content : Texts, calls : {<<>>}]
        \cup [content : {None, <<"1337">>}, calls : CallSeqs]

\* the replies a conversation may hold any number of: the fetch-caller
\* turn, the marker-free text, one verdict
PlainReplies ==
    { [content |-> None, calls |-> <<CallerCall>>],
      [content |-> <<"txt">>, calls |-> <<>>],
      [content |-> <<"1007">>, calls |-> <<>>] }

\* the other replies: a conversation holds at most one of them, at any turn
VariedReplies == Replies \ PlainReplies

WithoutIds(tool_calls) ==
    [i \in 1..Len(tool_calls) |->
        Call(tool_calls[i].name, tool_calls[i].arguments)]

\* the primary turns of the transcript (the dicts that carry "tool_calls")
PrimaryTurns(msgs) ==
    {i \in 1..Len(msgs) : "tool_calls" \in msgs[i].keys}

VariedTurns(msgs) ==
    {i \in PrimaryTurns(msgs) :
        [content |-> msgs[i].content, calls |-> WithoutIds(msgs[i].tool_calls)]
            \notin PlainReplies}

ReminderTurns(msgs) == {i \in 1..Len(msgs) : msgs[i] = Reminder}

\* a reply that leads to one more reminder
IsReminded(reply) ==
    reply.calls = <<>> /\ ~HasStatusCode(OrEmpty(reply.content))

\* a reply whose dispatch issues a side-query
MayMap(reply) ==
    \E i \in 1..Len(reply.calls) :
        reply.calls[i].name \in {"get_function_code", "get_caller_function"}

\* the replies and side-query outcomes explored in the current state
Inputs(replies) ==
    {in \in [reply : replies, side_ok : BOOLEAN] :
        /\ IsReminded(in.reply) => Cardinality(ReminderTurns(messages)) < MaxReminders
        /\ ~in.side_ok => MayMap(in.reply)}

(***************************************************************************)
(* Actions of the conversation.                                            *)
(***************************************************************************)
\* what the model retains of the loop's locals: all of it, or a window of
\* it (see the conversation without a horizon below)
\* turns kept after the seed (a bound of the model)
Window == 4

CounterCap == IF MaxIter > StopThreshold + 1 THEN MaxIter ELSE StopThreshold + 2

SeedLen == Len(MESSAGES) + 1

LastTurns(turns) ==
    IF Len(turns) <= Window THEN turns
    ELSE SubSeq(turns, Len(turns) - Window + 1, Len(turns))

\* a counter past its cap steps back by one: it keeps moving and keeps its
\* side of every comparison the loop makes
Capped(n) == IF n > CounterCap THEN CounterCap - 1 ELSE n

Windowed(st) ==
    [st EXCEPT !.messages = SubSeq(@, 1, SeedLen)
                                \o LastTurns(SubSeq(@, SeedLen + 1, Len(@))),
               !.iteration = Capped(@),
               !.amount_of_tools = Capped(@),
               !.model_calls = Capped(@),
               !.side_queries = Capped(@)]

Kept(st, windowed) == IF windowed THEN Windowed(st) ELSE st

\* one pass of `while not got_answer`
Iterate(reply, side_ok, windowed) ==
    /\ pc = "await"
    /\ \E st \in {Kept(AfterReply(reply, side_ok), windowed)} :
           /\ pc' = IF st.err /= "none" THEN "error"
                    ELSE IF st.got_answer THEN "done" ELSE "await"
           /\ err' = st.err
           /\ messages' = st.messages
           /\ amount_of_tools' = st.amount_of_tools
           /\ iteration' = st.iteration
           /\ final_content' = st.final_content
           /\ got_answer' = st.got_answer
           /\ all_functions' = st.all_functions
           /\ current_function' = st.current_function
           /\ model_calls' = st.model_calls
           /\ side_queries' = st.side_queries
    /\ UNCHANGED batch_vars
    /\ UNCHANGED lookup_vars
    /\ UNCHANGED run_vars

\* litellm.completion returns `reply`; the loop body runs to its end
ModelReply(reply, side_ok) ==
    /\ iteration < MaxIter
    /\ Iterate(reply, side_ok, FALSE)

\* litellm.completion raises: re-raised as LLMApiError
ModelCallFails ==
    /\ pc = "await"
    /\ iteration < MaxIter
    /\ pc' = "error"
    /\ err' = "LLMApiError"
    /\ iteration' = iteration + 1
    /\ model_calls' = model_calls + 1
    /\ UNCHANGED <<messages, amount_of_tools, final_content, got_answer,
                   all_functions, current_function, side_queries>>
    /\ UNCHANGED batch_vars
    /\ UNCHANGED lookup_vars
    /\ UNCHANGED run_vars

\* the locals of run_llm_security_analysis before the loop
StartConversation(function) ==
    /\ err' = "none"
    /\ messages' = Append(MESSAGES, UserPrompt)
    /\ amount_of_tools' = 0
    /\ iteration' = 0
    /\ final_content' = <<>>
    /\ got_answer' = FALSE
    /\ current_function' = function
    /\ all_functions' = <<function>>
    /\ model_calls' = 0
    /\ side_queries' = 0

\* run_llm_security_analysis(prompt, function_tree_file, current_function,
\* functions, db_path) up to the first model call, called as main() does
Init ==
    /\ pc = "await"
    /\ err = "none"
    /\ messages = Append(MESSAGES, UserPrompt)
    /\ amount_of_tools = 0
    /\ iteration = 0
    /\ final_content = <<>>
    /\ got_answer = FALSE
    /\ current_function = get_function_by_line(FunctionTree, FileA, 6).row
    /\ all_functions = <<current_function>>
    /\ model_calls = 0
    /\ side_queries = 0
    /\ issues = <<>>
    /\ issue_id = 0
    /\ real_issues = <<>>
    /\ false_issues = <<>>
    /\ more_data = <<>>
    /\ raw_files = {}
    /\ final_files = {}
    /\ skipped = 0
    /\ status = "none"
    /\ NoLookup
    /\ Configured

Next ==
    \/ \E in \in Inputs(PlainReplies) : ModelReply(in.reply, in.side_ok)
    \/ /\ VariedTurns(messages) = {}
       /\ \E in \in Inputs(VariedReplies) : ModelReply(in.reply, in.side_ok)
    \/ ModelCallFails

vars == <<conv_vars, batch_vars, lookup_vars, run_vars>>

Spec == Init /\ [][Next]_vars

(***************************************************************************)
(* The conversation without a horizon.  The loop's decisions depend on the *)
(* reply, on amount_of_tools >= 6 and on the functions resolved so far, so *)
(* the transcript is kept as its seed and its last Window turns and the    *)
(* counters stay within CounterCap: every run of this specification is     *)
(* the image of a run of the loop.  Each model call returns.               *)
(***************************************************************************)
MarkerFreeText == [content |-> <<"txt">>, calls |-> <<>>]

LiveNext ==
    \/ Iterate(MarkerFreeText, TRUE, TRUE)
    \/ \E reply \in PlainReplies \ {MarkerFreeText} : Iterate(reply, TRUE, TRUE)

LiveSpec == Init /\ [][LiveNext]_vars /\ WF_vars(LiveNext)

(***************************************************************************)
(* The batch: IssueAnalyzer.process_issue_type over the findings of one    *)
(* issue type.                                                             *)
(***************************************************************************)
\* findings per issue type (a bound of the model)
MaxFindings == 2

Finding(file, start_line) == [file |-> file, start_line |-> start_line]

\* issue["file"] is relative to the source location prefix
Findings ==
    { Finding(<<"/", "a">>, <<"6">>),
      Finding(<<"/", "a">>, <<"4", "2">>),
      Finding(<<"/", "b">>, <<"1", "6">>),
      Finding(<<"/", "x">>, <<"1">>) }

\* row.strip() and the split into fields
StrippedRow(r) ==
    [r EXCEPT !.function_name = LStrip(@), !.caller_id = RStrip(@)]

\* the test of find_function_by_line on one row
InRange(r, file_path, line) ==
    /\ Contains(FnRowText(r), file_path)
    /\ IntOfStripped(Strip(r.start_line)) /= ValueError
    /\ IntOfStripped(Strip(r.end_line)) /= ValueError
    /\ ParseInt(r.start_line) <= line
    /\ line <= ParseInt(r.end_line)
    /\ Contains(StrippedRow(r).file, file_path)

RangeSize(r) == ParseInt(r.end_line) - ParseInt(r.start_line)

\* deviation: the first containing row is kept, whatever its range
FirstContainingRow(tree, hits) == Min(hits)

\* the first of the rows with the smallest range
BestRow(tree, hits) ==
    Min({i \in hits : \A j \in hits : RangeSize(tree[i]) <= RangeSize(tree[j])})

SmallestOf(tree, hits) ==
    IF hits = {} THEN NotFound ELSE Found(StrippedRow(tree[BestRow(tree, hits)]))

\* IssueAnalyzer.find_function_by_line
find_function_by_line(tree, file_path, line) ==
    SmallestOf(tree, {i \in 1..Len(tree) : InRange(tree[i], file_path, line)})

\* deviation: 1007 is looked for first
determine_issue_status_rejected_first(llm_content) ==
    IF HasCode(llm_content, "1007") THEN "false"
    ELSE IF HasCode(llm_content, "1337") THEN "true"
    ELSE "more"

\* IssueAnalyzer.determine_issue_status
determine_issue_status(llm_content) ==
    IF HasCode(llm_content, "1337") THEN "true"
    ELSE IF HasCode(llm_content, "1007") THEN "false"
    ELSE "more"

\* the replies explored in a batch: the fetch-caller turn, the marker-free
\* text, the verdicts
BatchReplies ==
    PlainReplies \cup
    [content : { <<"1337">>, <<"7331">>, <<"7331", "3713">>, <<"1007", "1337">> },
     calls : {<<>>}]

\* top of `for issue in issues_of_type`: the source file is not in src.zip
ReadFails ==
    /\ pc = "next"
    /\ issue_id < Len(issues)
    /\ (CodePath \o issues[issue_id + 1].file) \notin ArchiveFiles
    /\ issue_id' = issue_id + 1
    /\ pc' = "error"
    /\ err' = "KeyError"
    /\ UNCHANGED <<messages, amount_of_tools, iteration, final_content, got_answer,
                   all_functions, current_function, model_calls, side_queries>>
    /\ UNCHANGED <<issues, real_issues, false_issues, more_data, raw_files,
                   final_files, skipped, status>>
    /\ UNCHANGED lookup_vars
    /\ UNCHANGED run_vars

\* `if not current_function: ... continue`
SkipFinding ==
    /\ pc = "next"
    /\ issue_id < Len(issues)
    /\ (CodePath \o issues[issue_id + 1].file) \in ArchiveFiles
    /\ find_function_by_line(FunctionTree,
                             <<"/">> \o CodePath \o issues[issue_id + 1].file,
                             ParseInt(issues[issue_id + 1].start_line)).tag = "notfound"
    /\ issue_id' = issue_id + 1
    /\ skipped' = skipped + 1
    /\ UNCHANGED conv_vars
    /\ UNCHANGED <<issues, real_issues, false_issues, more_data, raw_files,
                   final_files, status>>
    /\ UNCHANGED lookup_vars
    /\ UNCHANGED run_vars

\* deviation: the conversation is entered and the raw input is not saved
StartFindingWithoutRawInput ==
    /\ pc = "next"
    /\ issue_id < Len(issues)
    /\ (CodePath \o issues[issue_id + 1].file) \in ArchiveFiles
    /\ \E res \in {find_function_by_line(FunctionTree,
                       <<"/">> \o CodePath \o issues[issue_id + 1].file,
                       ParseInt(issues[issue_id + 1].start_line))} :
           /\ res.tag = "found"
           /\ StartConversation(res.row)
    /\ pc' = "await"
    /\ issue_id' = issue_id + 1
    /\ UNCHANGED <<issues, real_issues, false_issues, more_data, raw_files,
                   final_files, skipped, status>>
    /\ UNCHANGED lookup_vars
    /\ UNCHANGED run_vars

\* the function is found: the prompt is built, the raw input is saved and
\* run_llm_security_analysis is entered
StartFinding ==
    /\ pc = "next"
    /\ issue_id < Len(issues)
    /\ (CodePath \o issues[issue_id + 1].file) \in ArchiveFiles
    /\ \E res \in {find_function_by_line(FunctionTree,
                       <<"/">> \o CodePath \o issues[issue_id + 1].file,
                       ParseInt(issues[issue_id + 1].start_line))} :
           /\ res.tag = "found"
           /\ StartConversation(res.row)
    /\ pc' = "await"
    /\ issue_id' = issue_id + 1
    /\ raw_files' = raw_files \cup {issue_id + 1}
    /\ UNCHANGED <<issues, real_issues, false_issues, more_data, final_files,
                   skipped, status>>
    /\ UNCHANGED lookup_vars
    /\ UNCHANGED run_vars

BucketOf(st) ==
    IF st = "true" THEN "True Positive"
    ELSE IF st = "false" THEN "False Positive"
    ELSE "LLM needs More Data"

\* deviation: `if` where the code has `elif`: a "true" finding also falls
\* into the else branch of the second test
RecordVerdictWithoutElif(st) ==
    /\ pc = "done"
    /\ issues /= <<>>
    /\ final_files' = final_files \cup {issue_id}
    /\ real_issues' = IF st = "true" THEN Append(real_issues, issue_id) ELSE real_issues
    /\ false_issues' = IF st = "false" THEN Append(false_issues, issue_id) ELSE false_issues
    /\ more_data' = IF st /= "false" THEN Append(more_data, issue_id) ELSE more_data
    /\ status' = IF st = "false" THEN "False Positive" ELSE "LLM needs More Data"
    /\ pc' = "next"
    /\ UNCHANGED <<err, messages, amount_of_tools, iteration, final_content, got_answer,
                   all_functions, current_function, model_calls, side_queries>>
    /\ UNCHANGED <<issues, issue_id, raw_files, skipped>>
    /\ UNCHANGED lookup_vars
    /\ UNCHANGED run_vars

\* run_llm_security_analysis returned: <id>_final.json is written and the
\* issue id goes to one bucket
RecordVerdict(st) ==
    /\ pc = "done"
    /\ issues /= <<>>
    /\ final_files' = final_files \cup {issue_id}
    /\ real_issues' = IF st = "true" THEN Append(real_issues, issue_id) ELSE real_issues
    /\ false_issues' = IF st = "false" THEN Append(false_issues, issue_id) ELSE false_issues
    /\ more_data' = IF st \notin {"true", "false"} THEN Append(more_data, issue_id)
                    ELSE more_data
    /\ status' = BucketOf(st)
    /\ pc' = "next"
    /\ UNCHANGED <<err, messages, amount_of_tools, iteration, final_content, got_answer,
                   all_functions, current_function, model_calls, side_queries>>
    /\ UNCHANGED <<issues, issue_id, raw_files, skipped>>
    /\ UNCHANGED lookup_vars
    /\ UNCHANGED run_vars

\* the loop is over: the totals are logged
FinishType ==
    /\ pc = "next"
    /\ issue_id = Len(issues)
    /\ pc' = "finished"
    /\ UNCHANGED <<err, messages, amount_of_tools, iteration, final_content, got_answer,
                   all_functions, current_function, model_calls, side_queries>>
    /\ UNCHANGED batch_vars
    /\ UNCHANGED lookup_vars
    /\ UNCHANGED run_vars

\* process_issue_type(issue_type, issues_of_type, llm_analyzer) before the loop
BatchInit ==
    /\ pc = "next"
    /\ err = "none"
    /\ messages = <<>>
    /\ amount_of_tools = 0
    /\ iteration = 0
    /\ final_content = <<>>
    /\ got_answer = FALSE
    /\ current_function = NoRow
    /\ all_functions = <<>>
    /\ model_calls = 0
    /\ side_queries = 0
    /\ issues \in SeqsUpTo(Findings, MaxFindings) \ {<<>>}
    /\ issue_id = 0
    /\ real_issues = <<>>
    /\ false_issues = <<>>
    /\ more_data = <<>>
    /\ raw_files = {}
    /\ final_files = {}
    /\ skipped = 0
    /\ status = "none"
    /\ NoLookup
    /\ Configured

BatchNext ==
    \/ ReadFails
    \/ SkipFinding
    \/ StartFinding
    \/ \E in \in Inputs(BatchReplies) : ModelReply(in.reply, in.side_ok)
    \/ ModelCallFails
    \/ RecordVerdict(determine_issue_status(final_content))
    \/ FinishType

BatchSpec == BatchInit /\ [][BatchNext]_vars

(***************************************************************************)
(* The resolver and the extractors called on their own, on exports drawn   *)
(* from a pool of rows, in every order.                                    *)
(***************************************************************************)
\* rows of a drawn export (a bound of the model)
MaxRows == 3

FileAB == <<"/", "r", "/", "a", "b">>

\* f encloses g; g and t have equal spans and share line 7; w lies in the
\* file whose path extends FileA; ab is called by f, b from the position
\* /r/a:6; t's caller reference has a colon and no line number; the start
\* line of h is not a number
LookupRows ==
    { FnRow(<<"f">>,      FileA,  <<"5">>,      <<"1">>, <<"1", "5">>, <<"2">>),
      FnRow(<<"g">>,      FileA,  <<"6">>,      <<"2">>, <<"7">>,      <<"1">>),
      FnRow(<<"w">>,      FileAB, <<"6">>,      <<"3">>, <<"6">>,      <<"1">>),
      FnRow(<<"a", "b">>, FileB,  <<"1", "2">>, <<"4">>, <<"1", "3">>, <<"1">>),
      FnRow(<<"b">>,      FileB,  <<"1", "6">>, <<"5">>, <<"1", "7">>,
            <<"/", "r", "/", "a", ":", "6">>),
      FnRow(<<"t">>,      FileA,  <<"7">>,      <<"6">>, <<"8">>,
            <<"/", "r", "/", "a", ":", "x">>),
      FnRow(<<"h">>,      FileA,  <<"x">>,      <<"7">>, <<"9">>,      <<"1">>) }

MacroRow(name) == [macro_name |-> <<Q>> \o name \o <<Q>>, body |-> <<Q, "1", Q, NL>>]

GlobalRow(name) ==
    [global_var_name |-> <<Q>> \o name \o <<Q>>, file |-> <<Q>> \o FileA \o <<Q>>,
     start_line |-> <<"2">>, end_line |-> <<"2", NL>>]

ClassRow(class_name, simple_name) ==
    [type |-> <<Q, "s", Q>>, class_name |-> <<Q>> \o class_name \o <<Q>>,
     file |-> <<Q>> \o FileA \o <<Q>>, start_line |-> <<"4", "0">>,
     end_line |-> <<"4", "1">>, simple_name |-> <<Q>> \o simple_name \o <<Q, NL>>]

MacroRows == {MacroRow(<<"M">>), MacroRow(<<"M", "X">>)}

GlobalRows == {GlobalRow(<<"v">>), GlobalRow(<<"v", "2">>)}

ClassRows ==
    { ClassRow(<<"C">>, <<"C">>),
      ClassRow(<<"N", ":", ":", "D">>, <<"D">>),
      ClassRow(<<"B", "C">>, <<"B", "C">>),
      ClassRow(<<"N", ":", ":", "B", "D">>, <<"B", "D">>) }

\* the sequences of at most n distinct members of S
RECURSIVE Orders(_, _)
Orders(S, n) ==
    IF n = 0 THEN {<<>>}
    ELSE Orders(S, n - 1)
             \cup UNION {{Append(q, x) : x \in S \ {q[i] : i \in 1..Len(q)}} :
                            q \in {o \in Orders(S, n - 1) : Len(o) = n - 1}}

Exports ==
    [kind : {"functions"}, rows : Orders(LookupRows, MaxRows)]
        \cup [kind : {"macros"}, rows : Orders(MacroRows, 2)]
        \cup [kind : {"globals"}, rows : Orders(GlobalRows, 2)]
        \cup [kind : {"classes"}, rows : Orders(ClassRows, 2)]

\* arguments the calls are made with
QueriedNames == { <<"b">>, <<"N", ":", ":", "b">>, <<"z">> }
QueriedFiles == { FileA, FileB }
QueriedLines == { 6, 7, 16 }

\* known contexts: the runs of consecutive rows of the export
KnownContexts(rows) ==
    {SubSeq(rows, i, j) : i \in 1..Len(rows), j \in 1..Len(rows)} \ {<<>>}

\* one call per drawn export
Returned(req, ans) ==
    /\ request.op = "none"
    /\ request' = req
    /\ answer' = ans
    /\ UNCHANGED export
    /\ UNCHANGED conv_vars
    /\ UNCHANGED batch_vars
    /\ UNCHANGED run_vars

LookupByName(function_name, all_function) ==
    /\ export.kind = "functions"
    /\ Returned(Request("get_function_by_name", function_name, all_function, <<>>, 0, <<>>),
                get_function_by_name(export.rows, function_name, all_function))

LookupByLine(file, line) ==
    /\ export.kind = "functions"
    /\ Returned(Request("get_function_by_line", <<>>, <<>>, file, line, <<>>),
                get_function_by_line(export.rows, file, line))

FindByLine(file_path, line) ==
    /\ export.kind = "functions"
    /\ Returned(Request("find_function_by_line", <<>>, <<>>, file_path, line, <<>>),
                find_function_by_line(export.rows, file_path, line))

LookupCaller(current) ==
    /\ export.kind = "functions"
    /\ Returned(Request("get_caller_function", <<>>, <<>>, <<>>, 0, <<current>>),
                get_caller_function(export.rows, current))

LookupMacro(macro_name) ==
    /\ export.kind = "macros"
    /\ Returned(Request("get_macro", macro_name, <<>>, <<>>, 0, <<>>),
                get_macro(export.rows, macro_name))

LookupGlobal(global_var_name) ==
    /\ export.kind = "globals"
    /\ Returned(Request("get_global_var", global_var_name, <<>>, <<>>, 0, <<>>),
                get_global_var(export.rows, global_var_name))

LookupClass(class_name) ==
    /\ export.kind = "classes"
    /\ Returned(Request("get_class", class_name, <<>>, <<>>, 0, <<>>),
                get_class(export.rows, class_name))

\* IssueAnalyzer.extract_function_code: "\n".join(f"{start_line + i}: ..."),
\* start_line being int(function_dict["start_line"]) - 1
RECURSIVE CodeLines(_, _, _)
CodeLines(lines, start_line, i) ==
    IF i >= Len(lines) THEN <<>>
    ELSE (IF i = 0 THEN <<>> ELSE <<NL>>)
            \o <<ToString(start_line + i), ": ", "src", ToString(lines[i + 1])>>
            \o CodeLines(lines, start_line, i + 1)

CodeOf(n, start, end) ==
    IF start = ValueError \/ end = ValueError
    THEN [tag |-> "ValueError", text |-> <<>>]
    ELSE [tag |-> "ok", text |-> CodeLines(SliceLines(n, start, end), start - 1, 0)]

\* code_file is a file of n lines
extract_function_code(n, function_dict) ==
    IF function_dict = NoRow THEN [tag |-> "ok", text |-> <<>>]
    ELSE CodeOf(n, ParseInt(function_dict.start_line), ParseInt(function_dict.end_line))

\* the callback of create_bracket_reference_replacer on one match: the
\* text that replaces [["variable"|"relative://file_path:line_number:..."]]
replacement(variable, file_path, line_number) ==
    IF (CodePath \o file_path) \notin ArchiveFiles THEN [tag |-> "KeyError", text |-> <<>>]
    ELSE IF ParseInt(line_number) > ArchiveLines(CodePath \o file_path)
         THEN [tag |-> "IndexError", text |-> <<>>]
         ELSE [tag |-> "ok",
               text |-> <<variable, " '", "src", ToString(ParseInt(line_number)), "' (">>
                            \o LastComponent(file_path)
                            \o <<":", ToString(ParseInt(line_number)), ")">>]

\* the location phrase of build_prompt_by_template
location(issue) ==
    <<"look at ">> \o LastComponent(issue.file)
        \o <<":", ToString(ParseInt(issue.start_line) - 1), " with '", "src",
             ToString(ParseInt(issue.start_line)), "'">>

\* the prompt parts process_issue_type assembles for a finding whose
\* message refers to the finding's own line
PromptParts(issue, function_dict) ==
    [tag      |-> "ok",
     row      |-> function_dict,
     code     |-> <<"file: ">> \o CodePath \o issue.file \o <<NL>>
                      \o extract_function_code(ArchiveLines(CodePath \o issue.file),
                                               function_dict).text,
     message  |-> replacement("v", issue.file, issue.start_line).text,
     location |-> location(issue)]

\* LLMAnalyzer.extract_function_from_file on a row of the export
ExtractFromFile(row) ==
    /\ export.kind = "functions"
    /\ Returned(Request("extract_function_from_file", <<>>, <<>>, <<>>, 0, <<row>>),
                extract_function_from_file(row))

\* process_issue_type from the top of the loop body to the prompt
AssemblePrompt(issue) ==
    /\ export.kind = "functions"
    /\ (CodePath \o issue.file) \in ArchiveFiles
    /\ \E res \in {find_function_by_line(export.rows, <<"/">> \o CodePath \o issue.file,
                                         ParseInt(issue.start_line))} :
           /\ res.tag = "found"
           /\ Returned(Request("build_prompt_by_template", <<>>, <<>>, issue.file,
                               ParseInt(issue.start_line), <<>>),
                       PromptParts(issue, res.row))

\* a match of extra_lines_pattern in issue["message"]: the scheme, the path
\* and the line of a reference [["text"|"<scheme><path>:<line>:..."]]
Reference(path_type, file_ref, line_ref) ==
    [path_type |-> path_type, file_ref |-> file_ref, line_ref |-> line_ref]

\* the path inside src.zip a reference names
RefFile(ref) ==
    IF ref.path_type = "relative://" THEN CodePath \o Strip(ref.file_ref)
    ELSE IF Strip(ref.file_ref) /= <<>> /\ Strip(ref.file_ref)[1] = "/"
         THEN Drop1(Strip(ref.file_ref))
         ELSE Strip(ref.file_ref)

\* `functions.append(new_function)`, the read of the file, `code += ...`
AppendFunction(acc, file_ref, new_function) ==
    IF file_ref \notin ArchiveFiles
    THEN [acc EXCEPT !.tag = "KeyError", !.functions = Append(@, new_function)]
    ELSE [acc EXCEPT !.functions = Append(@, new_function),
                     !.code = @ \o <<NL, NL, "file: ">> \o file_ref \o <<NL>>
                                \o extract_function_code(ArchiveLines(file_ref),
                                                         new_function).text]

\* one pass of `for another_func_ref in extra_lines`
AppendIfNew(acc, file_ref, new) ==
    IF new.tag = "found" /\ new.row \notin {acc.functions[i] : i \in 1..Len(acc.functions)}
    THEN AppendFunction(acc, file_ref, new.row)
    ELSE acc

AppendReference(acc, tree, ref, own_function) ==
    IF acc.tag /= "ok" THEN acc
    ELSE IF /\ ParseInt(own_function.start_line) <= ParseInt(ref.line_ref)
            /\ ParseInt(ref.line_ref) <= ParseInt(own_function.end_line)
         THEN acc
         ELSE AppendIfNew(acc, RefFile(ref),
                          find_function_by_line(tree, <<"/">> \o RefFile(ref),
                                                ParseInt(ref.line_ref)))

\* IssueAnalyzer.append_extra_functions
RECURSIVE append_extra_functions(_, _, _, _, _)
append_extra_functions(extra_lines, i, tree, acc, own_function) ==
    IF i > Len(extra_lines) THEN acc
    ELSE append_extra_functions(extra_lines, i + 1, tree,
                                AppendReference(acc, tree, extra_lines[i],
                                                own_function),
                                own_function)

\* the references of a message (a bound of the model: their number)
MaxRefs == 2

\* into g (and f) of /r/a, into b by a relative and by an absolute path,
\* into ab
References ==
    { Reference("relative://", <<"/", "a">>, <<"6">>),
      Reference("relative://", <<"/", "b">>, <<"1", "6">>),
      Reference("file://", <<"/", "r", "/", "b">>, <<"1", "7">>),
      Reference("relative://", <<"/", "b">>, <<"1", "2">>) }

ReferenceLists == SeqsUpTo(References, MaxRefs) \ {<<>>}

\* process_issue_type from the top of the loop body to the working set of
\* functions and the accumulated code
DiscoverFunctions(issue, extra_lines) ==
    /\ export.kind = "functions"
    /\ (CodePath \o issue.file) \in ArchiveFiles
    /\ \E res \in {find_function_by_line(export.rows, <<"/">> \o CodePath \o issue.file,
                                         ParseInt(issue.start_line))} :
           /\ res.tag = "found"
           /\ Returned(Request("append_extra_functions", <<>>, extra_lines, issue.file,
                               ParseInt(issue.start_line), <<res.row>>),
                       append_extra_functions(extra_lines, 1, export.rows,
                           [tag |-> "ok", functions |-> <<res.row>>,
                            code |-> PromptParts(issue, res.row).code],
                           res.row))

LookupInit ==
    /\ pc = "lookup"
    /\ err = "none"
    /\ messages = <<>>
    /\ amount_of_tools = 0
    /\ iteration = 0
    /\ final_content = <<>>
    /\ got_answer = FALSE
    /\ current_function = NoRow
    /\ all_functions = <<>>
    /\ model_calls = 0
    /\ side_queries = 0
    /\ issues = <<>>
    /\ issue_id = 0
    /\ real_issues = <<>>
    /\ false_issues = <<>>
    /\ more_data = <<>>
    /\ raw_files = {}
    /\ final_files = {}
    /\ skipped = 0
    /\ status = "none"
    /\ Configured
    /\ export \in Exports
    /\ request = Request("none", <<>>, <<>>, <<>>, 0, <<>>)
    /\ answer = [tag |-> "none"]

LookupNext ==
    \/ \E name \in QueriedNames, known \in KnownContexts(export.rows) :
           LookupByName(name, known)
    \/ \E file \in QueriedFiles, line \in QueriedLines : LookupByLine(file, line)
    \/ \E file \in QueriedFiles, line \in QueriedLines : FindByLine(file, line)
    \/ \E i \in 1..Len(export.rows) : LookupCaller(export.rows[i])
    \/ \E name \in {<<"M">>, <<"X">>} : LookupMacro(name)
    \/ \E name \in {<<"v">>, <<"N", ":", ":", "v">>} : LookupGlobal(name)
    \/ \E name \in {<<"C">>, <<"D">>, <<"N", ":", ":", "D">>} : LookupClass(name)
    \/ \E i \in 1..Len(export.rows) : ExtractFromFile(export.rows[i])
    \/ \E issue \in Findings : AssemblePrompt(issue)

LookupSpec == LookupInit /\ [][LookupNext]_vars

(***************************************************************************)
(* The discovery of auxiliary functions on its own: exports of the rows    *)
(* f, g, ab and b in every order, findings in /r/a and in /r/b.            *)
(***************************************************************************)
DiscoverExports ==
    [kind : {"functions"},
     rows : {o \in Orders({r \in LookupRows :
                              RemoveQuotes(r.function_name)
                                  \in {<<"f">>, <<"g">>, <<"a", "b">>, <<"b">>}},
                          MaxRows) : Len(o) = MaxRows}]

DiscoverInit ==
    /\ pc = "lookup"
    /\ err = "none"
    /\ messages = <<>>
    /\ amount_of_tools = 0
    /\ iteration = 0
    /\ final_content = <<>>
    /\ got_answer = FALSE
    /\ current_function = NoRow
    /\ all_functions = <<>>
    /\ model_calls = 0
    /\ side_queries = 0
    /\ issues = <<>>
    /\ issue_id = 0
    /\ real_issues = <<>>
    /\ false_issues = <<>>
    /\ more_data = <<>>
    /\ raw_files = {}
    /\ final_files = {}
    /\ skipped = 0
    /\ status = "none"
    /\ Configured
    /\ export \in DiscoverExports
    /\ request = Request("none", <<>>, <<>>, <<>>, 0, <<>>)
    /\ answer = [tag |-> "none"]

DiscoverNext ==
    \E issue \in {Finding(<<"/", "a">>, <<"6">>), Finding(<<"/", "b">>, <<"1", "6">>)},
       extra_lines \in ReferenceLists : DiscoverFunctions(issue, extra_lines)

DiscoverSpec == DiscoverInit /\ [][DiscoverNext]_vars

(***************************************************************************)
(* A conversation whose model asks for the same function again: it climbs  *)
(* to the caller, asks for g by name, or gives its verdict.                *)
(***************************************************************************)
RepeatReplies ==
    { [content |-> None, calls |-> <<CallerCall>>],
      [content |-> None, calls |-> <<FunctionCall(<<"g">>)>>],
      [content |-> <<"1007">>, calls |-> <<>>] }

RepeatNext ==
    \/ \E in \in Inputs(RepeatReplies) : ModelReply(in.reply, in.side_ok)
    \/ ModelCallFails

RepeatSpec == Init /\ [][RepeatNext]_vars

(***************************************************************************)
(* IssueAnalyzer.run: the configuration is validated and the client is     *)
(* initialised, then the findings are processed.                           *)
(***************************************************************************)
\* the dictionaries a caller gives: none, an empty one, a complete one, one
\* without a model, one under the alias google, one for ollama without its
\* endpoint
GivenConfigs ==
    { NoConfig,
      ConfigDict({}, "", <<>>, ""),
      OpenAIConfig,
      ConfigDict({"provider", "api_key"}, "openai", <<>>, "sk-live"),
      ConfigDict({"provider", "model", "api_key"}, "google", <<"gemini-pro">>, "sk-live"),
      ConfigDict({"provider", "model"}, "ollama", <<"ollama", "/", "llama3">>, "") }

\* .env as shipped in .env.example has the placeholder key; PROVIDER may
\* name a provider load_llm_config refuses; codeql may be missing
Environments ==
    { DefaultEnvironment,
      [DefaultEnvironment EXCEPT !.codeql_ok = FALSE],
      [DefaultEnvironment EXCEPT !.llm.api_key = "your_api_key"],
      [DefaultEnvironment EXCEPT !.loads = FALSE] }

RunIssues ==
    { << Finding(<<"/", "a">>, <<"4", "2">>), Finding(<<"/", "a">>, <<"6">>) >>,
      << Finding(<<"/", "x">>, <<"1">>) >> }

\* `if self.config is None: validate_and_exit_on_error()`
ValidateConfiguration ==
    /\ pc = "run"
    /\ IF ~config.is_dict /\ ~validate_all_config(environment)
       THEN pc' = "exit" /\ err' = "ConfigurationError"
       ELSE pc' = "init" /\ err' = err
    /\ UNCHANGED <<messages, amount_of_tools, iteration, final_content, got_answer,
                   all_functions, current_function, model_calls, side_queries>>
    /\ UNCHANGED batch_vars
    /\ UNCHANGED lookup_vars
    /\ UNCHANGED run_vars

\* deviation: the model name is set and the run goes on whatever the
\* validation says
InitClientUnvalidated ==
    /\ pc = "init"
    /\ analyzer' = [config |-> IF config.is_dict /\ config.keys /= {} THEN config
                               ELSE environment.llm,
                    model  |-> <<"gpt-4o">>]
    /\ pc' = "next"
    /\ UNCHANGED <<err, messages, amount_of_tools, iteration, final_content, got_answer,
                   all_functions, current_function, model_calls, side_queries>>
    /\ UNCHANGED batch_vars
    /\ UNCHANGED lookup_vars
    /\ UNCHANGED <<config, environment>>

\* `llm_analyzer = LLMAnalyzer(); llm_analyzer.init_llm_client(config=self.config)`
InitClient ==
    /\ pc = "init"
    /\ \E r \in {init_llm_client(config, environment)} :
           /\ analyzer' = [config |-> r.config, model |-> r.model]
           /\ pc' = IF r.tag = "ok" THEN "next" ELSE "error"
           /\ err' = IF r.tag = "ok" THEN err ELSE r.tag
    /\ UNCHANGED <<messages, amount_of_tools, iteration, final_content, got_answer,
                   all_functions, current_function, model_calls, side_queries>>
    /\ UNCHANGED batch_vars
    /\ UNCHANGED lookup_vars
    /\ UNCHANGED <<config, environment>>

\* run_llm_security_analysis on an analyzer whose init_llm_client was not
\* called: `if not self.model: raise RuntimeError`
AnalysisUninitialised ==
    /\ pc = "created"
    /\ analyzer.model = <<>>
    /\ pc' = "error"
    /\ err' = "RuntimeError"
    /\ UNCHANGED <<messages, amount_of_tools, iteration, final_content, got_answer,
                   all_functions, current_function, model_calls, side_queries>>
    /\ UNCHANGED batch_vars
    /\ UNCHANGED lookup_vars
    /\ UNCHANGED run_vars

\* run() is entered, or an analyzer was only constructed
RunInit ==
    /\ pc \in {"run", "created"}
    /\ err = "none"
    /\ messages = <<>>
    /\ amount_of_tools = 0
    /\ iteration = 0
    /\ final_content = <<>>
    /\ got_answer = FALSE
    /\ current_function = NoRow
    /\ all_functions = <<>>
    /\ model_calls = 0
    /\ side_queries = 0
    /\ issues \in RunIssues
    /\ issue_id = 0
    /\ real_issues = <<>>
    /\ false_issues = <<>>
    /\ more_data = <<>>
    /\ raw_files = {}
    /\ final_files = {}
    /\ skipped = 0
    /\ status = "none"
    /\ NoLookup
    /\ config \in GivenConfigs
    /\ environment \in Environments
    /\ analyzer = [config |-> NoConfig, model |-> <<>>]

RunNext ==
    \/ ValidateConfiguration
    \/ InitClient
    \/ AnalysisUninitialised
    \/ ReadFails
    \/ SkipFinding
    \/ analyzer.model /= <<>> /\ StartFinding
    \/ \E in \in Inputs(BatchReplies) : ModelReply(in.reply, in.side_ok)
    \/ ModelCallFails
    \/ RecordVerdict(determine_issue_status(final_content))
    \/ FinishType

RunSpec == RunInit /\ [][RunNext]_vars

(***************************************************************************)
(* The results loader of the UI: the status of a stored transcript.        *)
(***************************************************************************)
\* ResultsLoader.extract_status
extract_status(content) ==
    IF content = <<>> THEN "more"
    ELSE IF HasCode(content, "1337") THEN "true"
    ELSE IF HasCode(content, "1007") THEN "false"
    ELSE "more"

\* parse_final_json on the file format_llm_messages wrote (the repr of the
\* dicts, not JSON): role and content of every dict whose content is a
\* string; a dict with `'content': None` is not recovered
parse_final_json(msgs) ==
    [i \in 1..Len(SelectSeq(msgs, LAMBDA m : m.content /= None)) |->
        [role    |-> SelectSeq(msgs, LAMBDA m : m.content /= None)[i].role,
         content |-> SelectSeq(msgs, LAMBDA m : m.content /= None)[i].content]]

\* `for msg in reversed(final_data)`, the assistant messages with content;
\* the loop stops at the first status that is not "more"
AssistantStatus(final_data, hits) ==
    IF hits = {} THEN "more"
    ELSE extract_status(final_data[CHOOSE i \in hits : \A j \in hits : j <= i].content)

\* `if status == "more": for msg in reversed(final_data)`, all messages
AnyStatus(final_data, hits) ==
    IF hits = {} THEN "more"
    ELSE extract_status(final_data[CHOOSE i \in hits : \A j \in hits : j <= i].content)

\* the status load_all_issues gives the issue of a final record
load_all_issues(final_data) ==
    IF AssistantStatus(final_data,
           {i \in 1..Len(final_data) :
               /\ final_data[i].role = "assistant"
               /\ extract_status(final_data[i].content) /= "more"}) /= "more"
    THEN AssistantStatus(final_data,
             {i \in 1..Len(final_data) :
                 /\ final_data[i].role = "assistant"
                 /\ extract_status(final_data[i].content) /= "more"})
    ELSE AnyStatus(final_data,
             {i \in 1..Len(final_data) :
                 extract_status(final_data[i].content) /= "more"})

(***************************************************************************)
(* Properties.                                                             *)
(***************************************************************************)
IsPrefix(a, b) == Len(a) <= Len(b) /\ SubSeq(b, 1, Len(a)) = a

Range(q) == {q[i] : i \in 1..Len(q)}

\* the primary turns that carry tool invocations
ToolTurns(msgs) == {i \in PrimaryTurns(msgs) : msgs[i].tool_calls /= <<>>}

StopWarnings(msgs) == {i \in 1..Len(msgs) : msgs[i] = StopWarning}

\* the taxonomy tokens a text holds
TokensIn(text) == {code \in StatusCodes : HasCode(text, code)}

LastMessage == messages[Len(messages)]

\* C1 (checked under LiveSpec, where every model call returns): every
\* conversation eventually reaches Terminated, whatever the model replies.
Terminates == <>(pc = "done")

\* the turn the model gave in the step at hand
GivenTurn == messages'[Len(messages) + 1]

IsVerdictTurn(turn) ==
    turn.tool_calls = <<>> /\ HasStatusCode(OrEmpty(turn.content))

FinalTurnHoldsAToken ==
    pc = "done" =>
        /\ LastMessage.role = "assistant"
        /\ "tool_calls" \in LastMessage.keys
        /\ LastMessage.tool_calls = <<>>
        /\ LastMessage.content = final_content
        /\ Cardinality(TokensIn(LastMessage.content)) >= 1

\* C3 as written: the final turn holds exactly one of the four tokens.
FinalTurnHoldsOneToken ==
    pc = "done" =>
        /\ LastMessage.role = "assistant"
        /\ LastMessage.tool_calls = <<>>
        /\ Cardinality(TokensIn(LastMessage.content)) = 1

\* C3, its case: a conversation terminated by a turn holding 7331 and 3713
TerminatedOnTwoTokens ==
    /\ pc = "done"
    /\ TokensIn(LastMessage.content) = {"7331", "3713"}

\* C4: between iterations the tool-call counter is the number of primary
\* turns that carried at least one tool invocation: one per such turn
\* however many invocations it carries, none for reminder iterations or
\* argument-mapping side-queries.
CounterCountsToolIterations ==
    pc \in {"await", "done"} =>
        amount_of_tools = Cardinality(ToolTurns(messages))

\* C4, its case: one turn with two invocations, side-queries and a reminder
\* iteration, and a counter of one
TwoInvocationsCountOnce ==
    /\ pc = "await"
    /\ amount_of_tools = 1
    /\ \E i \in ToolTurns(messages) : Len(messages[i].tool_calls) = 2
    /\ side_queries >= 1
    /\ ReminderTurns(messages) /= {}

\* C5: the tool-call counter never exceeds a fixed number; the one number
\* the loop compares it with is the stop threshold.
CounterBounded == amount_of_tools <= StopThreshold

\* the stop warnings n tool-call iterations call for
WarningsFor(n) == IF n > 5 THEN n - 5 ELSE 0

InBuckets == Range(real_issues) \cup Range(false_issues) \cup Range(more_data)

BucketSizes == Len(real_issues) + Len(false_issues) + Len(more_data)

\* the finding at hand has not been recorded
Underway == IF pc \in {"await", "done", "error"} THEN 1 ELSE 0

VerdictOf(content) ==
    IF HasCode(content, "1337") THEN "True Positive"
    ELSE IF HasCode(content, "1007") THEN "False Positive"
    ELSE "LLM needs More Data"

Max(S) == CHOOSE i \in S : \A j \in S : j <= i

\* the bucket the finding recorded last went to
LastBucket ==
    IF final_files = {} THEN "none"
    ELSE IF Max(final_files) \in Range(real_issues) THEN "True Positive"
    ELSE IF Max(final_files) \in Range(false_issues) THEN "False Positive"
    ELSE "LLM needs More Data"

\* the first turn of the conversation is a verdict turn holding 1337
FirstTurnHolds1337 ==
    /\ Len(messages) > SeedLen
    /\ messages[SeedLen + 1].tool_calls = <<>>
    /\ HasCode(OrEmpty(messages[SeedLen + 1].content), "1337")

\* C8: the verdict recorded for a finding is Confirmed if the final content
\* holds 1337, otherwise Rejected if it holds 1007, otherwise
\* InsufficientData; a first turn without tool call holding 1337 ends the
\* conversation in iteration 1 after one model call with Confirmed.
VerdictFollowsFinalContent ==
    /\ (pc \in {"next", "finished"} /\ status /= "none") =>
           /\ status = VerdictOf(final_content)
           /\ LastBucket = VerdictOf(final_content)
    /\ FirstTurnHolds1337 =>
           /\ pc /= "await"
           /\ iteration = 1
           /\ model_calls = 1
           /\ pc \in {"next", "finished"} => status = "True Positive"

\* C8, its case: a first turn holding 1007 and 1337, recorded as Confirmed
FirstTurnConfirmed ==
    /\ pc = "next"
    /\ FirstTurnHolds1337
    /\ HasCode(final_content, "1007")
    /\ status = "True Positive"
    /\ issue_id \in Range(real_issues)

\* the turns one iteration adds, in order: the model's turn, a reply per
\* invocation, the argument-mapping turns, the stop warning; or the model's
\* turn and the reminder
AddedTurns == SubSeq(messages', Len(messages) + 1, Len(messages'))

CompleteIteration(added, n, k, w, r) ==
    /\ Len(added) = 1 + n + k + w + r
    /\ added[1].role = "assistant" /\ "tool_calls" \in added[1].keys
    /\ \A j \in 1..n : added[1 + j].role = "tool"
    /\ \A j \in 1..k : added[1 + n + j] = ArgMessage
    /\ w = 1 => added[Len(added)] = StopWarning
    /\ r = 1 => added[2] = Reminder

\* C9: the transcript starts with the three system turns and the user
\* prompt; every step leaves the transcript it had as a prefix of the new
\* one; an iteration adds every turn it produced, in order of occurrence.
TranscriptAppendOnly ==
    [][/\ SubSeq(messages, 1, SeedLen) = MESSAGES \o <<UserPrompt>>
       /\ \A i \in 1..Len(MESSAGES) : messages[i].role = "system"
       /\ Len(MESSAGES) = 3
       /\ IsPrefix(messages, messages')
       /\ pc' \in {"await", "done"} =>
              CompleteIteration(
                  AddedTurns,
                  Len(GivenTurn.tool_calls),
                  side_queries' - side_queries,
                  IF GivenTurn.tool_calls /= <<>> /\ amount_of_tools' >= StopThreshold
                  THEN 1 ELSE 0,
                  IF GivenTurn.tool_calls = <<>> /\ pc' = "await" THEN 1 ELSE 0)]_vars

\* C9, its case: a returned transcript holding tool replies, argument-mapping
\* turns, a reminder and a stop warning
ReturnedWithEveryKind ==
    /\ pc = "done"
    /\ \E i \in 1..Len(messages) : messages[i].role = "tool"
    /\ \E i \in 1..Len(messages) : messages[i] = ArgMessage
    /\ ReminderTurns(messages) /= {}
    /\ StopWarnings(messages) /= {}

\* the tool replies that carry identifier id
RepliesTo(msgs, id) ==
    {j \in 1..Len(msgs) : msgs[j].role = "tool" /\ msgs[j].tool_call_id = id}

\* C10: at every model submission and in the returned transcript, the n
\* invocations of an assistant turn are followed by n tool replies, the
\* j-th carrying the j-th invocation's identifier, before any other turn;
\* no other reply carries that identifier.
OneReplyPerInvocation ==
    pc \in {"await", "done"} =>
        /\ \A i \in ToolTurns(messages) :
               \A j \in 1..Len(messages[i].tool_calls) :
                   /\ i + j <= Len(messages)
                   /\ RepliesTo(messages, messages[i].tool_calls[j].id) = {i + j}
        /\ \A j \in 1..Len(messages) :
               messages[j].role = "tool" =>
                   \E i \in ToolTurns(messages) :
                       i < j /\ j <= i + Len(messages[i].tool_calls)

\* C10, its case: a returned transcript with a turn of two invocations
ReturnedWithTwoInvocations ==
    /\ pc = "done"
    /\ \E i \in ToolTurns(messages) :
           /\ Len(messages[i].tool_calls) = 2
           /\ messages[i + 1].role = "tool"
           /\ messages[i + 2].role = "tool"

\* the tools of the prompt and the argument each needs
RequiredArgument ==
    [get_function_code |-> "function_name",
     get_caller_function |-> "",
     get_macro |-> "macro_name",
     get_global_var |-> "global_var_name",
     get_class |-> "object_name"]

\* an invocation with an unrecognized name, or of a known tool without the
\* argument it needs
IsUnmatched(tc) ==
    \/ tc.name \notin DOMAIN RequiredArgument
    \/ /\ RequiredArgument[tc.name] /= ""
       /\ tc.arguments.key /= RequiredArgument[tc.name]

\* C11: a turn whose one invocation names no known tool, or a known tool
\* without its required argument, never aborts the loop: the iteration
\* appends the "no matching tool or invalid args, try again" reply for that
\* invocation, leaves the known functions and the current function as they
\* were, and the loop goes on to the next model call.
UnmatchedRequestIsAnswered ==
    [][(/\ pc = "await"
        /\ Len(messages') > Len(messages)
        /\ Len(GivenTurn.tool_calls) = 1
        /\ IsUnmatched(GivenTurn.tool_calls[1])) =>
          /\ pc' = "await"
          /\ Len(messages') >= Len(messages) + 2
          /\ messages'[Len(messages) + 2] =
                 ToolReply(GivenTurn.tool_calls[1].id,
                           GivenTurn.tool_calls[1].name,
                           NoMatchingTool(GivenTurn.tool_calls[1].name))
          /\ all_functions' = all_functions
          /\ current_function' = current_function]_vars

\* the model calls of the conversation at hand that raised: every call
\* that returned left a primary turn or an argument-mapping turn
FailedCalls == model_calls - side_queries - Cardinality(PrimaryTurns(messages))

\* C12: a model call that fails, in the loop or in an argument-mapping
\* side-query, aborts the analysis of the finding with LLMApiError: it is
\* the only failed call (nothing is retried), no model call follows it, and
\* the finding gets no final record and no bucket.
ModelFailureAborts ==
    [][/\ FailedCalls' > 0 =>
              /\ pc' = "error"
              /\ err' = "LLMApiError"
              /\ FailedCalls' = 1
              /\ issue_id' \notin final_files' \cup InBuckets'
       /\ FailedCalls > 0 =>
              /\ model_calls' = model_calls
              /\ messages' = messages
              /\ final_files' = final_files]_vars

\* C12, its case: the second finding's conversation ended by a failed
\* side-query, after its fetch-caller turn and before the tool reply
SideQueryFailed ==
    /\ pc = "error"
    /\ err = "LLMApiError"
    /\ FailedCalls = 1
    /\ LastMessage.tool_calls /= <<>>
    /\ issue_id = 2
    /\ final_files = {1}

NameLookups == {"get_function_by_name", "get_macro", "get_global_var", "get_class"}

\* the names a record goes by: its name field and, for a type, its simple
\* name (the line terminator is not part of it)
NamesOf(r) ==
    IF export.kind = "functions" THEN {RemoveQuotes(r.function_name)}
    ELSE IF export.kind = "macros" THEN {RemoveQuotes(r.macro_name)}
    ELSE IF export.kind = "globals" THEN {RemoveQuotes(r.global_var_name)}
    ELSE {RemoveQuotes(r.class_name), Strip(RemoveQuotes(r.simple_name))}

\* the name looked for: the trailing component, but for macros
QueriedName ==
    IF request.op = "get_macro" THEN request.name ELSE LastComponent(request.name)

ExactRecords == {i \in 1..Len(export.rows) : QueriedName \in NamesOf(export.rows[i])}

SubstringOnlyRecords ==
    {i \in 1..Len(export.rows) \ ExactRecords :
        \E n \in NamesOf(export.rows[i]) : Contains(n, QueriedName)}

\* the rows a known context admits (every row, for the other lookups)
CandidateRecords ==
    IF request.op /= "get_function_by_name" THEN 1..Len(export.rows)
    ELSE {i \in 1..Len(export.rows) :
             \E k \in 1..Len(request.known) :
                 Contains(FnRowText(export.rows[i]), request.known[k].function_id)}

AnsweredRecord ==
    IF request.op = "get_function_by_name" THEN answer.row
    ELSE export.rows[answer.idx]

\* C13: when the export holds a record named exactly as queried and another
\* that only contains the name, the lookup by name (function, macro, global,
\* type) returns the exact record, in every row order; a substring-only
\* record is returned only if no candidate row bears the exact name.
ExactBeforeFuzzy ==
    request.op \in NameLookups =>
        /\ (ExactRecords /= {} /\ SubstringOnlyRecords /= {}) =>
               /\ answer.tag = "found"
               /\ \E i \in ExactRecords : AnsweredRecord = export.rows[i]
        /\ (answer.tag = "found"
                /\ \E i \in SubstringOnlyRecords : AnsweredRecord = export.rows[i]) =>
               ExactRecords \cap CandidateRecords = {}

\* the record an index of the whole export by name gives: the first record
\* named exactly as queried, else the first whose name contains the name
IndexedByName ==
    IF ExactRecords /= {} THEN Min(ExactRecords)
    ELSE IF SubstringOnlyRecords /= {} THEN Min(SubstringOnlyRecords)
    ELSE 0

\* C14: with a non-empty known context, get_function_by_name returns what
\* an exact-then-fuzzy lookup over the whole function export returns: the
\* same record, or not-found when that lookup finds none; a function the
\* export holds under exactly the queried name is found.
KnownContextOnlyOptimizes ==
    (request.op = "get_function_by_name" /\ request.known /= <<>>) =>
        IF IndexedByName = 0 THEN answer.tag = "notfound"
        ELSE /\ answer.tag = "found"
             /\ answer.row = export.rows[IndexedByName]

\* the invocations of get_function_code in the transcript, as <<turn, j>>
FunctionRequests ==
    {p \in (1..Len(messages)) \X (1..MaxCalls) :
        /\ p[1] \in ToolTurns(messages)
        /\ p[2] <= Len(messages[p[1]].tool_calls)
        /\ messages[p[1]].tool_calls[p[2]].name = "get_function_code"
        /\ p[1] + p[2] <= Len(messages)}

\* C15: lookups are idempotent; two fetch-function-by-name requests with
\* the same arguments, made at different points of one conversation over
\* the same export, are answered with the same record.
RepeatedRequestSameAnswer ==
    \A p, q \in FunctionRequests :
        messages[p[1]].tool_calls[p[2]].arguments
                = messages[q[1]].tool_calls[q[2]].arguments
            => messages[p[1] + p[2]].content = messages[q[1] + q[2]].content

\* the snippet a request produced: the text of extract_function_from_file,
\* or the code part of the assembled prompt
SnippetRequests == {"extract_function_from_file", "build_prompt_by_template"}

ExtractedRow ==
    IF request.op = "build_prompt_by_template" THEN answer.row ELSE request.row[1]

ExtractedText ==
    IF request.op = "build_prompt_by_template" THEN answer.code ELSE answer.text

\* the file whose lines the extractor read, as the header names it
ExtractedPath ==
    IF request.op = "build_prompt_by_template" THEN CodePath \o request.file
    ELSE Drop1(RemoveQuotes(ExtractedRow.file))

\* "file: <path>" and the lines first..last of the file, each with its own
\* number as prefix
RECURSIVE LinesWithOwnNumbers(_, _)
LinesWithOwnNumbers(first, last) ==
    IF first > last THEN <<>>
    ELSE <<ToString(first), ": ", "src", ToString(first)>>
             \o (IF first = last THEN <<>> ELSE <<NL>>)
             \o LinesWithOwnNumbers(first + 1, last)

\* a record with a span of numbers that lies within its archived file
IsLocated(r, path) ==
    /\ path \in ArchiveFiles
    /\ ParseInt(r.start_line) /= ValueError
    /\ ParseInt(r.end_line) /= ValueError
    /\ 1 <= ParseInt(r.start_line)
    /\ ParseInt(r.start_line) <= ParseInt(r.end_line)
    /\ ParseInt(r.end_line) <= ArchiveLines(path)

\* C16: for a located record with span [startLine, endLine] in a file of at
\* least endLine lines, the extractor returns the header "file: <path>" and
\* exactly endLine - startLine + 1 lines, prefixed startLine to endLine (for
\* the row f of /r/a, 5 to 15: 11 lines prefixed 5: through 15:).
SnippetNumbersItsLines ==
    (request.op \in SnippetRequests /\ IsLocated(ExtractedRow, ExtractedPath)) =>
        /\ answer.tag = "ok"
        /\ ExtractedText =
               <<"file: ">> \o ExtractedPath \o <<NL>>
                   \o LinesWithOwnNumbers(ParseInt(ExtractedRow.start_line),
                                          ParseInt(ExtractedRow.end_line))

\* the prefix the line `line` of the file bears in a snippet
PrefixOf(text, line) ==
    text[(CHOOSE j \in 3..Len(text) - 1 :
              text[j] = "src" /\ text[j + 1] = ToString(line)) - 2]

\* the line number a "<basename>:<line>" reference shows
LineShown(text) == text[(CHOOSE j \in 1..Len(text) - 1 : text[j] = ":") + 1]

\* C17: a source line is shown to the model under one number: its prefix in
\* the snippet of either extractor, the line of the "look at <file>:<line>"
\* phrase and the line of the rewritten bracket reference
\* "(<basename>:<line>)" are the same.
LineNumbersAgree ==
    request.op = "build_prompt_by_template" =>
        /\ PrefixOf(answer.code, request.line) = LineShown(answer.location)
        /\ extract_function_from_file(answer.row).tag = "ok" =>
               PrefixOf(extract_function_from_file(answer.row).text, request.line)
                   = LineShown(answer.location)
        /\ LineShown(answer.message) = LineShown(answer.location)

\* a row whose line fields are numbers and whose range holds the line
Encloses(r, line) ==
    /\ ParseInt(r.start_line) /= ValueError
    /\ ParseInt(r.end_line) /= ValueError
    /\ ParseInt(r.start_line) <= line
    /\ line <= ParseInt(r.end_line)

Span(r) == ParseInt(r.end_line) - ParseInt(r.start_line)

\* the answer is the first of the rows `among` with the least span, and
\* there is none exactly when `among` is empty
IsSmallestOf(among) ==
    /\ answer.tag = "notfound" <=> among = {}
    /\ answer.tag \in {"found", "notfound"}
    /\ answer.tag = "found" =>
           \E i \in among :
               /\ answer.row = StrippedRow(export.rows[i])
               /\ \A j \in among :
                      /\ Span(export.rows[i]) <= Span(export.rows[j])
                      /\ Span(export.rows[j]) = Span(export.rows[i]) => i <= j

\* C18 as stated: find_function_by_line(file, line) returns a well-formed
\* row of that file whose range holds the line and whose span is minimal
\* (the first such row on ties), and nothing exactly when no well-formed
\* row of that file holds the line.
FindReturnsSmallestOfFile ==
    request.op = "find_function_by_line" =>
        IsSmallestOf({i \in 1..Len(export.rows) :
                         /\ Encloses(export.rows[i], request.line)
                         /\ RemoveQuotes(export.rows[i].file) = request.file})

\* C18 as amended: the rows compared are the well-formed rows whose file
\* field contains the queried path; among those that hold the line the
\* first of least span is returned, and nothing exactly when there is none.
FindReturnsSmallestOfMatchingFiles ==
    request.op = "find_function_by_line" =>
        IsSmallestOf({i \in 1..Len(export.rows) :
                         /\ Encloses(export.rows[i], request.line)
                         /\ Contains(export.rows[i].file, request.file)})

\* C18, its case: line 6 of /r/a asked for in the export f, w, g: the row w
\* of /r/ab has the least span and is returned
SmallestRowOfLongerPath ==
    /\ request.op = "find_function_by_line"
    /\ request.file = FileA
    /\ request.line = 6
    /\ Len(export.rows) = 3
    /\ \A i \in 1..3 : Encloses(export.rows[i], 6)
    /\ answer.tag = "found"
    /\ answer.row = StrippedRow(export.rows[2])
    /\ RemoveQuotes(answer.row.file) = FileAB

\* C19: get_function_by_line(file, line) only returns a record declared in
\* the queried file whose range holds the line; it returns the first such
\* row in export order, and nothing only if the export has no such row.
ByLineReturnsFirstOfFile ==
    request.op = "get_function_by_line" =>
        /\ answer.tag \in {"found", "notfound"}
        /\ answer.tag = "found" =>
               /\ RemoveQuotes(answer.row.file) = request.file
               /\ Encloses(answer.row, request.line)
               /\ \E i \in 1..Len(export.rows) :
                      /\ answer.row = export.rows[i]
                      /\ \A j \in 1..(i - 1) :
                             ~(/\ RemoveQuotes(export.rows[j].file) = request.file
                               /\ Encloses(export.rows[j], request.line))
        /\ answer.tag = "notfound" =>
               \A i \in 1..Len(export.rows) :
                   ~(/\ RemoveQuotes(export.rows[i].file) = request.file
                     /\ Encloses(export.rows[i], request.line))

\* the caller reference of the record asked about, and the rows it names
CallerReference == Strip(RemoveQuotes(request.row[1].caller_id))

ReferencedRecords ==
    {i \in 1..Len(export.rows) :
        Strip(RemoveQuotes(export.rows[i].function_id)) = CallerReference}

Colons(s) == {i \in 1..Len(s) : s[i] = ":"}

\* a reference "<file>:<line>": one colon, digits after it
IsPosition(s) ==
    /\ Cardinality(Colons(s)) = 1
    /\ ParseInt(SubSeq(s, Min(Colons(s)) + 1, Len(s))) /= ValueError

\* C20: get_caller_function(record) returns the record whose identifier
\* equals the caller reference when there is one; otherwise, for a reference
\* of the form file:line, the function get_function_by_line finds at that
\* position; when both fail it returns the not-found text and does not raise.
CallerFoundOrNotFoundText ==
    request.op = "get_caller_function" =>
        IF ReferencedRecords /= {}
        THEN answer = Found(export.rows[Min(ReferencedRecords)])
        ELSE IF IsPosition(CallerReference)
                /\ get_function_by_line(
                       export.rows,
                       Drop1(SubSeq(CallerReference, 1, Min(Colons(CallerReference)) - 1)),
                       ParseInt(SubSeq(CallerReference, Min(Colons(CallerReference)) + 1,
                                       Len(CallerReference)))).tag = "found"
             THEN answer =
                      get_function_by_line(
                          export.rows,
                          Drop1(SubSeq(CallerReference, 1, Min(Colons(CallerReference)) - 1)),
                          ParseInt(SubSeq(CallerReference, Min(Colons(CallerReference)) + 1,
                                          Len(CallerReference))))
             ELSE answer = NotFound

\* the invocations of the given turn whose reply shows a function record:
\* the snippet of the function fetched by name, or the caller's snippet
ResolvedInvocations ==
    {j \in 1..Len(GivenTurn.tool_calls) :
        /\ GivenTurn.tool_calls[j].name \in {"get_function_code", "get_caller_function"}
        /\ messages'[Len(messages) + 1 + j].content[1]
               \in {"file: ", "Here is the caller function for '"}}

MappingTurns(turns) == {i \in 1..Len(turns) : turns[i] = ArgMessage}

\* C25: an invocation triggers one side-query, answered by one more turn,
\* if and only if it is a fetch by name or a fetch of the caller that
\* resolved a record; an unresolved fetch and the type, global and macro
\* tools trigger none: the mapping turns of an iteration are as many as its
\* resolved fetches and never more than its invocations.
OneMappingPerResolvedFetch ==
    [][(pc = "await" /\ pc' \in {"await", "done"} /\ Len(messages') > Len(messages)) =>
          /\ side_queries' - side_queries = Cardinality(ResolvedInvocations)
          /\ model_calls' - model_calls = 1 + Cardinality(ResolvedInvocations)
          /\ Cardinality(MappingTurns(AddedTurns)) = Cardinality(ResolvedInvocations)
          /\ Cardinality(MappingTurns(AddedTurns)) <= Len(GivenTurn.tool_calls)]_vars

\* C25, its case: a turn of two invocations, the caller resolved and an
\* unknown tool, answered by two replies and one mapping turn
OneMappingForTwoInvocations ==
    /\ pc = "await"
    /\ \E i \in ToolTurns(messages) :
           /\ Len(messages[i].tool_calls) = 2
           /\ messages[i].tool_calls[1].name = "get_caller_function"
           /\ messages[i].tool_calls[2].name = "bogus"
           /\ i + 3 <= Len(messages)
           /\ messages[i + 1].content[1] = "Here is the caller function for '"
           /\ messages[i + 3] = ArgMessage
           /\ (i + 4 <= Len(messages) => messages[i + 4] /= ArgMessage)


\* the replies that show a caller, and those that report there is none
CallerShown(msgs) ==
    {i \in 1..Len(msgs) :
        /\ msgs[i].role = "tool"
        /\ msgs[i].content[1] = "Here is the caller function for '"}

CallerMissing(msgs) ==
    {i \in 1..Len(msgs) : msgs[i].role = "tool" /\ msgs[i].content = NotFoundCaller}

\* the k-th caller above a function, by the export
RECURSIVE KthCaller(_, _)
KthCaller(function, k) ==
    IF k = 0 THEN function
    ELSE KthCaller(get_caller_function(FunctionTree, function).row, k - 1)

\* C26: after k fetch-caller invocations that showed a caller, within one
\* iteration or across several, the current function is the k-th caller
\* above the finding's function; a fetch-caller answered with the not-found
\* text, and every other tool, leaves the current function where it was.
CurrentFunctionClimbs ==
    pc \in {"await", "done"} =>
        /\ current_function =
               KthCaller(all_functions[1], Cardinality(CallerShown(messages)))
        /\ Cardinality(CallerShown(messages)) < Len(all_functions)

\* C26, its case: two callers were shown by one turn and a third by
\* another turn: the current function is p, three callers above f
ClimbedThreeCallers ==
    /\ pc = "await"
    /\ Cardinality(CallerShown(messages)) = 3
    /\ \E i \in ToolTurns(messages) :
           /\ Len(messages[i].tool_calls) = 2
           /\ {i + 1, i + 2} \subseteq CallerShown(messages)
    /\ current_function.function_name = <<Q, "p", Q>>


\* the turns that follow the tool turn at i, up to the next turn of the
\* model or to the end of the transcript
TurnsAfter(msgs, i) ==
    LET later == {j \in PrimaryTurns(msgs) : j > i}
        last  == IF later = {} THEN Len(msgs)
                 ELSE (CHOOSE j \in later : \A l \in later : j <= l) - 1
    IN  SubSeq(msgs, i + 1, last)

\* tool replies showing a function record among the first n turns
RecordsShown(turns, n) ==
    {j \in 1..n :
        /\ turns[j].name \in {"get_function_code", "get_caller_function"}
        /\ turns[j].content[1] \in {"file: ", "Here is the caller function for '"}}

\* C28: inside one tool iteration the assistant turn comes first, then the
\* replies to all of its invocations in invocation order with nothing in
\* between, then all argument-mapping turns, then the stop warning when the
\* counter has reached six; nothing else is added.
IterationTurnOrder ==
    pc \in {"await", "done"} =>
        \A i \in ToolTurns(messages) :
            LET n      == Len(messages[i].tool_calls)
                after  == TurnsAfter(messages, i)
                k      == Len(after) - n -
                              (IF after[Len(after)] = StopWarning THEN 1 ELSE 0)
                earlier == {j \in ToolTurns(messages) : j <= i}
            IN  /\ Len(after) >= n
                /\ \A j \in 1..n :
                       /\ after[j].role = "tool"
                       /\ after[j].tool_call_id = messages[i].tool_calls[j].id
                /\ k = Cardinality(RecordsShown(after, n))
                /\ \A j \in 1..k : after[n + j] = ArgMessage
                /\ after[Len(after)] = StopWarning
                       <=> Cardinality(earlier) >= StopThreshold

\* C28, its case: the sixth tool turn made two invocations that both showed
\* a record: two replies, two mapping turns, the stop warning
TwoRepliesTwoMappingsWarning ==
    /\ pc = "await"
    /\ \E i \in ToolTurns(messages) :
           /\ Len(messages[i].tool_calls) = 2
           /\ Len(messages) = i + 5
           /\ messages[i + 1].role = "tool" /\ messages[i + 2].role = "tool"
           /\ messages[i + 3] = ArgMessage /\ messages[i + 4] = ArgMessage
           /\ messages[i + 5] = StopWarning


\* C27: for each analysed finding <id>_raw.json is written before the first
\* model call of that finding and <id>_final.json only after its
\* conversation has terminated; a finding with a final record has a raw
\* record of the same id; every record gets an id no earlier record of the
\* issue type has, also after skipped findings.
RawBeforeModelFinalAfter ==
    [][/\ raw_files' /= raw_files =>
              /\ model_calls' = 0
              /\ issue_id' \notin raw_files
              /\ \A id \in raw_files : id < issue_id'
              /\ raw_files' = raw_files \cup {issue_id'}
       /\ model_calls' > model_calls =>
              issue_id \in raw_files /\ issue_id \notin final_files
       /\ final_files' /= final_files =>
              /\ pc = "done" /\ got_answer
              /\ issue_id \notin final_files
              /\ final_files' = final_files \cup {issue_id}
       /\ final_files' \subseteq raw_files']_vars

\* C27, its case: the first finding was skipped, the second has its raw and
\* its final record under the id 2
SecondFindingRecordedAfterSkip ==
    /\ skipped = 1
    /\ raw_files = {2}
    /\ final_files = {2}
    /\ model_calls > 0


\* C29: a record returned by get_function_by_name and the context record
\* returned with it form a call edge: the context record's identifier is
\* the returned record's caller reference, and the two are distinct
\* functions, so the side-query never pairs a function with itself or with
\* an unrelated one.
NameResultIsCallEdge ==
    (request.op = "get_function_by_name" /\ answer.tag = "found") =>
        /\ Strip(RemoveQuotes(answer.row.caller_id))
               = Strip(RemoveQuotes(answer.parent.function_id))
        /\ answer.parent /= answer.row


\* C23: a failure while one finding is analysed (the model call raises, the
\* export or the archive cannot be read) does not end the batch: with
\* findings left, the loop goes on to the next finding.
FailureLeavesBatchRunning ==
    (pc = "error" /\ issue_id < Len(issues)) =>
        ENABLED (StartFinding \/ SkipFinding \/ ReadFails)


\* C22: a name the export does not hold is answered with a not-found text;
\* a read that fails (a file the archive does not hold, an archive or an
\* export that cannot be read) raises the one recoverable kind CodeQLError:
\* an analysis that was aborted by anything but the model call or the
\* parsing of the arguments was aborted by a CodeQLError.
ReadFailureIsCodeQLError ==
    (pc = "error" /\ err \notin {"LLMApiError", "JSONDecodeError"}) =>
        err = "CodeQLError"


\* the configuration the client reads: the dictionary given when it is not
\* empty, else the one of .env
EffectiveConfigValid ==
    IF config.is_dict /\ config.keys /= {} THEN validate_llm_config_dict(config)
    ELSE environment.loads /\ validate_llm_config_dict(environment.llm)

ClientInitialised ==
    /\ analyzer.model /= <<>>
    /\ validate_llm_config_dict(analyzer.config)
    /\ EffectiveConfigValid
    /\ config.is_dict \/ validate_all_config(environment)

\* C24: no model call, primary or side-query, is made and no finding is
\* processed unless the configuration was validated and the client
\* initialised before; with an invalid or missing configuration the run
\* ends with a configuration error; run_llm_security_analysis on an
\* analyzer that was not initialised raises without calling the model.
NoModelCallBeforeInitialisation ==
    /\ (model_calls > 0 \/ side_queries > 0 \/ issue_id > 0 \/ raw_files /= {}
            \/ pc \in {"next", "await", "done", "finished"}) => ClientInitialised
    /\ pc = "exit" => err = "ConfigurationError" /\ analyzer.model = <<>>
    /\ err = "LLMConfigError" => pc = "error" /\ ~EffectiveConfigValid
    /\ err = "RuntimeError" => pc = "error" /\ model_calls = 0 /\ messages = <<>>

\* C24, its case: no dictionary was given, .env was validated and loaded,
\* and the model was called for a finding
ModelCalledAfterInitialisation ==
    /\ ~config.is_dict
    /\ analyzer.model = <<"gpt-4o">>
    /\ pc = "await"
    /\ model_calls > 0
    /\ raw_files /= {}
    /\ issues \in RunIssues


\* the function a reference points into, by the export
Referenced(ref) ==
    find_function_by_line(export.rows, <<"/">> \o RefFile(ref), ParseInt(ref.line_ref))

\* the functions outside the finding's own that the references resolve to
AuxiliaryFunctions ==
    {Referenced(request.known[i]).row : i \in
        {j \in 1..Len(request.known) :
            /\ Referenced(request.known[j]).tag = "found"
            /\ Referenced(request.known[j]).row /= request.row[1]}}

FileHeaders(code) == {i \in 1..Len(code) : code[i] = "file: "}

\* C21: every reference of the message that lies outside the finding's own
\* function and resolves to a function puts that function into the working
\* set exactly once and its snippet, under a file: header, into the code
\* exactly once, however many references point into it; references into the
\* finding's own function add nothing; the finding's own function is the
\* first element of the set.
ReferencedFunctionsJoinOnce ==
    (request.op = "append_extra_functions" /\ answer.tag = "ok") =>
        /\ answer.functions[1] = request.row[1]
        /\ \A fn \in AuxiliaryFunctions :
               Cardinality({i \in 1..Len(answer.functions) : answer.functions[i] = fn}) = 1
        /\ Len(answer.functions) = 1 + Cardinality(AuxiliaryFunctions)
        /\ Cardinality(FileHeaders(answer.code)) = Len(answer.functions)


\* C30: the status the results loader derives from the stored transcript
\* of a terminated conversation is the verdict the triage run recorded:
\* determine_issue_status of the conversation's final content.
LoaderAgreesWithVerdict ==
    pc = "done" =>
        load_all_issues(parse_final_json(messages))
            = determine_issue_status(final_content)

====
